---- MODULE Spec2Model ----
(***************************************************************************)
(* Feedback analysis pipeline: the ingestion of an uploaded file           *)
(* (_parse_feedback_file) and analyze_file of                              *)
(* app/domain/services/feedback_service.py, and, of                        *)
(* app/domain/chains/feedback_chain.py, the per-comment normalisation      *)
(* (_validate_analysis), the analyzer (analyze_comment), the               *)
(* bounded-concurrency batch (analyze_batch), alone and as two             *)
(* interleaved invocations, the aggregation (aggregate_results) and the    *)
(* saving of the results (_save_analysis_results).                         *)
(*                                                                         *)
(* Conventions.  Optional[x] is a sequence of length <= 1: None is <<>>    *)
(* and a present value v is <<v>>.  Scores are counted in hundredths       *)
(* (0.5 is 50, 1.0 is 100).  Issue and feature-request texts are           *)
(* sequences of characters so that lower() and strip() act on them; theme  *)
(* labels, sentiments and priorities are only compared, so they are        *)
(* plain strings.                                                          *)
(***************************************************************************)
EXTENDS Integers, Sequences, FiniteSets, TLC

VARIABLES
    vpc,              \* normalisation scenario: "off", "raw", "validated", "revalidated"
    raw,              \* the CommentAnalysis the parser handed to _validate_analysis
    validated,        \* what _validate_analysis returned
    revalidated,      \* what _validate_analysis returned for its own result
    pc,               \* analyze_file / analyze_batch position
    comments_data,    \* the records given to analyze_batch
    max_concurrency,  \* the max_concurrency argument (Optional[int])
    semaphore,        \* Optional[int]: None before the gate exists, else its value
    woken,            \* tasks queued on the gate that a release has handed a slot and that have not resumed yet
    task,             \* task[i]: "waiting", "running" or "done" (analyze_single for record i)
    task_result,      \* task[i]'s outcome once done
    reply,            \* what the LLM chain did for record i's call
    call_count,       \* number of analyze_comment calls started for record i
    gates,            \* number of semaphores created
    overtaken,        \* history: some call finished while an earlier record's was in flight
    output,           \* Optional: the list analyze_batch returned
    upload,           \* Optional: the file given to analyze_file
    parsed,           \* Optional: what _parse_feedback_file returned or raised
    raised,           \* Optional: the error analyze_file raised
    report,           \* Optional: what aggregate_results returned
    job_dirs,         \* number of job directories under the artifacts path
    artifacts,        \* names of the files in the job directory
    job_id,           \* Optional: what _save_analysis_results returned
    agg_args,         \* Optional: the arguments of a direct aggregate_results call
    second            \* Optional: a second analyze_batch invocation running interleaved

vars == <<vpc, raw, validated, revalidated, pc, comments_data, max_concurrency, semaphore,
          woken, task, task_result, reply, call_count, gates, overtaken, output,
          upload, parsed, raised, report, job_dirs, artifacts, job_id, agg_args, second>>

valVars == <<vpc, raw, validated, revalidated>>
batchVars == <<pc, comments_data, max_concurrency, semaphore, woken, task, task_result,
               reply, call_count, gates, overtaken, output>>
fileVars == <<upload, parsed, raised>>
storeVars == <<report, job_dirs, artifacts, job_id>>

----------------------------------------------------------------------------
(* Bounds *)
MaxRawLen == 4        \* longest raw list the LLM returns
MaxRecords == 6       \* largest batch
MaxArg == 2           \* largest max_concurrency argument
MaxRows == 2          \* most rows of an uploaded file
MaxJudgments == 3     \* longest list of judgments drawn for aggregate_results

(* Program constants *)
ScoreOne == 100                \* 1.0
ScoreHalf == 50                \* 0.5
MaxThemes == 3
MaxIssues == 3
MaxRequests == 3
SettingsMaxConcurrency == 5    \* settings.max_concurrency
MinCommentLen == 5             \* len(comment) > 5
MaxCommentLen == 1000          \* len(comment) < 1000
MaxRanked == 10                \* most_common(10)
ExampleMaxLen == 100           \* len(comment) < 100
MaxExamples == 3               \* len(examples) >= 3
HighlightScore == 80           \* sentiment_score > 0.8
HighlightMinLen == 20          \* len(comment) > 20
HighlightMaxLen == 150         \* len(comment) < 150
MaxHighlights == 5             \* len(highlights) >= 5
BucketThemes == 5              \* most_common(5)
BucketIssues == 3              \* most_common(3)

None == <<>>
Some(v) == <<v>>

Min(a, b) == IF a < b THEN a ELSE b
Max(a, b) == IF a > b THEN a ELSE b

----------------------------------------------------------------------------
(* str.strip(), str.lower() and list slicing *)

\* the characters str.strip() removes
IsSpace(c) == c \in {" ", "\t", "\n"}

LowerChar(c) == CASE c = "A" -> "a" [] c = "B" -> "b" [] c = "R" -> "r" [] OTHER -> c

Lower(s) == [k \in 1..Len(s) |-> LowerChar(s[k])]

RECURSIVE LStrip(_)
LStrip(s) == IF s # <<>> /\ IsSpace(Head(s)) THEN LStrip(Tail(s)) ELSE s

RECURSIVE RStrip(_)
RStrip(s) == IF s # <<>> /\ IsSpace(s[Len(s)]) THEN RStrip(SubSeq(s, 1, Len(s) - 1)) ELSE s

\* (variant: at most one whitespace character is removed at each end)
StripOnce(s) ==
    LET l == IF s # <<>> /\ IsSpace(Head(s)) THEN Tail(s) ELSE s
    IN  IF l # <<>> /\ IsSpace(l[Len(l)]) THEN SubSeq(l, 1, Len(l) - 1) ELSE l

Strip(s) == RStrip(LStrip(s))

\* xs[:n]
Take(xs, n) == SubSeq(xs, 1, Min(n, Len(xs)))

\* [x for x in xs if x.strip()]
NonBlank(xs) == SelectSeq(xs, LAMBDA x : Strip(x) # <<>>)

----------------------------------------------------------------------------
(* _validate_analysis, statement by statement *)

ValidSentiments == {"positive", "neutral", "negative"}
ValidPriorities == {"alta", "media", "baja"}

\* (variant: the label is passed through unchecked)
ValidateSentimentUnchecked(s) == s

ValidateSentiment(s) == IF s \notin ValidSentiments THEN "neutral" ELSE s

\* (variant: only the upper end is clamped)
ClampScoreUpperOnly(x) == Min(ScoreOne, x)

ClampScore(x) == Max(0, Min(ScoreOne, x))

\* (variant: the slice is missing)
LimitThemesUncapped(ts) == IF ts # <<>> THEN ts ELSE <<"general">>

\* the distinct elements of xs in first-occurrence order
RECURSIVE Distinct(_)
Distinct(xs) ==
    IF xs = <<>> THEN <<>>
    ELSE LET front == Distinct(SubSeq(xs, 1, Len(xs) - 1))
             last == xs[Len(xs)]
         IN  IF \E k \in 1..Len(front) : front[k] = last THEN front ELSE Append(front, last)

\* (variant: repeated labels are dropped before the slice)
LimitThemesDistinct(ts) == IF ts # <<>> THEN Take(Distinct(ts), MaxThemes) ELSE <<"general">>

LimitThemes(ts) == IF ts # <<>> THEN Take(ts, MaxThemes) ELSE <<"general">>

CleanIssues(is) ==
    LET kept == NonBlank(is)
    IN  Take([k \in 1..Len(kept) |-> Strip(Lower(kept[k]))], MaxIssues)

\* (variant: an invalid priority becomes media whatever the issues)
ValidatePriorityAlwaysMedia(p, issues) ==
    IF p # None /\ p[1] # "" /\ p[1] \notin ValidPriorities THEN Some("media") ELSE p

\* "if p and p not in [...]": None and "" are falsy and left alone
ValidatePriority(p, issues) ==
    IF p # None /\ p[1] # "" /\ p[1] \notin ValidPriorities
    THEN IF issues # <<>> THEN Some("media") ELSE None
    ELSE p

CleanRequests(rs) ==
    LET kept == NonBlank(rs)
    IN  Take([k \in 1..Len(kept) |-> Strip(kept[k])], MaxRequests)

ValidateAnalysis(a) ==
    LET issues == CleanIssues(a.issues)
    IN  [sentiment        |-> ValidateSentiment(a.sentiment),
         sentiment_score  |-> ClampScore(a.sentiment_score),
         themes           |-> LimitThemes(a.themes),
         issues           |-> issues,
         issue_priority   |-> ValidatePriority(a.issue_priority, issues),
         feature_requests |-> CleanRequests(a.feature_requests)]

----------------------------------------------------------------------------
(* What the LLM chain can hand back: raw CommentAnalysis objects *)

SeqsUpTo(S, n) == UNION {[1..k -> S] : k \in 0..n}

RawSentiments == {"positive", "neutral", "negative", "mixed"}
RawScores == {0 - 50, 0, 50, 100, 150}
ThemeLabels == {"sabor", "precio"}
RawIssueTexts == {<<>>, <<"\t">>, <<" ", "A">>, <<"b">>}
RawRequestTexts == {<<" ">>, <<"R", " ">>, <<" ", " ", "s">>}
RawPriorities == {None, Some(""), Some("alta"), Some("media"), Some("baja"), Some("urgente")}

\* A well-formed judgment.  The raw judgments vary the fields around it group
\* by group: the statements of _validate_analysis read one field each, except
\* the priority statement, which also reads the cleaned issues.
BaseRaw ==
    [sentiment |-> "positive", sentiment_score |-> 90, themes |-> <<"sabor">>,
     issues |-> <<>>, issue_priority |-> None, feature_requests |-> <<>>]

RawJudgments ==
    {[BaseRaw EXCEPT !.sentiment = s, !.sentiment_score = x, !.themes = ts] :
        s \in RawSentiments, x \in RawScores, ts \in SeqsUpTo(ThemeLabels, MaxRawLen)}
    \cup
    {[BaseRaw EXCEPT !.issues = is, !.issue_priority = p] :
        is \in SeqsUpTo(RawIssueTexts, MaxRawLen), p \in RawPriorities}
    \cup
    {[BaseRaw EXCEPT !.feature_requests = rs, !.issue_priority = p] :
        rs \in SeqsUpTo(RawRequestTexts, MaxRawLen), p \in {None, Some("alta")}}

\* The raw judgments the LLM returns inside a batch: a clean one and one
\* that breaks every rule of the normalisation.
MessySample ==
    [sentiment |-> "mixed", sentiment_score |-> 150,
     themes |-> <<"sabor", "precio", "sabor", "precio">>,
     issues |-> <<<<" ", "A">>, <<" ">>, <<"b">>, <<"b">>, <<"A">>>>,
     issue_priority |-> Some("urgente"),
     feature_requests |-> <<<<"R", " ">>, <<"s">>, <<"s">>, <<"s">>>>]

RawSamples == {BaseRaw, MessySample}

----------------------------------------------------------------------------
(* Scenario 1: one call of _validate_analysis *)

BatchOff ==
    /\ pc = "off" /\ comments_data = <<>> /\ max_concurrency = None
    /\ semaphore = None /\ woken = 0 /\ task = <<>> /\ task_result = <<>> /\ reply = <<>>
    /\ call_count = <<>> /\ gates = 0 /\ overtaken = FALSE /\ output = None
    /\ upload = None /\ parsed = None /\ raised = None
    /\ report = None /\ job_dirs = 0 /\ artifacts = <<>> /\ job_id = None
    /\ agg_args = None /\ second = None

InitValidate ==
    /\ vpc = "raw"
    /\ raw \in RawJudgments
    /\ validated = None
    /\ revalidated = None
    /\ BatchOff

Validate ==
    /\ vpc = "raw"
    /\ validated' = Some(ValidateAnalysis(raw))
    /\ vpc' = "validated"
    /\ UNCHANGED <<raw, revalidated, batchVars, fileVars, storeVars, agg_args, second>>

\* _validate_analysis applied to a judgment it has already normalised
Revalidate ==
    /\ vpc = "validated"
    /\ revalidated' = Some(ValidateAnalysis(validated[1]))
    /\ vpc' = "revalidated"
    /\ UNCHANGED <<raw, validated, batchVars, fileVars, storeVars, agg_args, second>>

----------------------------------------------------------------------------
(* _parse_feedback_file                                                    *)
(*                                                                         *)
(* An uploaded file is what pandas reads from it: the suffix of its name,  *)
(* the header (column names in file order) and the rows (one cell per      *)
(* column).  An empty cell is NaN.  NaN is a float object and a dict finds *)
(* a NaN key by identity only (nan != nan), so a NaN carries the identity  *)
(* of its object: <<"NaN", 0>> is the one np.nan that the empty cells of   *)
(* an object column share, <<"NaN", k>> the float that to_dict('records')  *)
(* makes for row k of a float64 column.  A comment text is                 *)
(* <<"text", column, leading blanks, body length, trailing blanks>>, the   *)
(* body starting and ending with a non-blank character, so that strip()    *)
(* and len() act on it; any other cell is the opaque value <<column, row>>.*)
(***************************************************************************)

NaN == <<"NaN", 0>>
NaNOf(k) == <<"NaN", k>>
IsNaN(v) == Len(v) = 2 /\ v[1] = "NaN"
Anonymous == <<"anonymous">>
StrOfNaN == <<"nan">>                 \* str(float('nan'))

Text(col, lead, body, trail) == <<"text", col, lead, body, trail>>
IsText(v) == Len(v) = 5
\* str.strip() and len() on a comment text (a blank-only text has body 0)
StripText(v) == Text(v[2], 0, v[4], 0)
TextLen(v) == v[3] + v[4] + v[5]
\* str(x) of a cell
StrOf(v) == IF IsNaN(v) THEN StrOfNaN ELSE v

\* dict.get(key, default)
Get(d, key, default) == IF key \in DOMAIN d THEN d[key] ELSE default

\* Path(filename).suffix.lower()
LowerSuffix(x) ==
    CASE x = ".CSV" -> ".csv" [] x = ".Xlsx" -> ".xlsx" [] x = ".XLS" -> ".xls" [] OTHER -> x

SupportedSuffixes == {".csv", ".xlsx", ".xls"}

RequiredColumns == <<"comment">>
OptionalColumns == <<"username", "channel", "date">>

\* column_mapping, in the dict's order
ColumnMapping ==
    << <<"comment",  <<"comment", "comentario", "feedback", "review", "opinion", "text">> >>,
       <<"username", <<"username", "user", "usuario", "name", "nombre">> >>,
       <<"channel",  <<"channel", "canal", "platform", "plataforma", "source">> >>,
       <<"date",     <<"date", "fecha", "timestamp", "created_at">> >> >>

InSeq(x, xs) == \E k \in 1..Len(xs) : xs[k] = x

\* [col for col in required_columns if col not in df.columns]
MissingRequired(columns) == SelectSeq(RequiredColumns, LAMBDA c : ~InSeq(c, columns))

\* the first variation that is a column of the frame (0: none)
FirstVariation(variations, columns) ==
    IF \E k \in 1..Len(variations) : InSeq(variations[k], columns)
    THEN CHOOSE k \in 1..Len(variations) :
            /\ InSeq(variations[k], columns)
            /\ \A j \in 1..(k - 1) : ~InSeq(variations[j], columns)
    ELSE 0

\* df.rename(columns={old: new})
Rename(df, old, new) ==
    LET names == [k \in 1..Len(df.columns) |->
                    IF df.columns[k] = old THEN new ELSE df.columns[k]]
        key(c) == IF c = new THEN old ELSE c
    IN  [columns |-> names,
         rows |-> [r \in 1..Len(df.rows) |->
                     [c \in {names[k] : k \in 1..Len(names)} |-> df.rows[r][key(c)]]]]

\* the loop over column_mapping, entries m..Len(ColumnMapping)
RECURSIVE MapColumns(_, _)
MapColumns(df, m) ==
    IF m > Len(ColumnMapping) THEN df
    ELSE LET k == FirstVariation(ColumnMapping[m][2], df.columns)
         IN  MapColumns(IF k = 0 THEN df
                        ELSE Rename(df, ColumnMapping[m][2][k], ColumnMapping[m][1]),
                        m + 1)

\* the mapping is tried only when a required column is missing
ResolveColumns(df) ==
    IF MissingRequired(df.columns) # <<>> THEN MapColumns(df, 1) ELSE df

\* df.dropna(subset=['comment']); strip; keep len > 5
CleanRows(rows) ==
    LET present == SelectSeq(rows, LAMBDA r : ~IsNaN(r["comment"]))
        stripped == [k \in 1..Len(present) |->
                        [present[k] EXCEPT !["comment"] = StripText(@)]]
    IN  SelectSeq(stripped, LAMBDA r : TextLen(r["comment"]) > MinCommentLen)

\* default values for the optional columns the frame does not have
DefaultFor(col) == IF col = "username" THEN Anonymous ELSE None

WithDefaults(columns, rows) ==
    LET have == {columns[k] : k \in 1..Len(columns)}
        added == {OptionalColumns[k] : k \in 1..Len(OptionalColumns)} \ have
    IN  [k \in 1..Len(rows) |->
            [c \in have \cup added |-> IF c \in have THEN rows[k][c] ELSE DefaultFor(c)]]

\* the dict built for a row that passes the length filter
EmittedRecord(row) ==
    [comment  |-> StripText(Get(row, "comment", Text("", 0, 0, 0))),
     username |-> StrOf(Get(row, "username", Anonymous)),
     channel  |-> Get(row, "channel", None),
     date     |-> Get(row, "date", None)]

\* (variant: a comment of exactly 1000 characters is kept)
ReasonableLengthInclusive(row) ==
    LET n == TextLen(StripText(Get(row, "comment", Text("", 0, 0, 0))))
    IN  n > MinCommentLen /\ n <= MaxCommentLen

ReasonableLength(row) ==
    LET n == TextLen(StripText(Get(row, "comment", Text("", 0, 0, 0))))
    IN  n > MinCommentLen /\ n < MaxCommentLen

ValidComments(rows) ==
    LET kept == SelectSeq(rows, ReasonableLength)
    IN  [k \in 1..Len(kept) |-> EmittedRecord(kept[k])]

ParseOk(records) == [status |-> "ok", records |-> records, missing |-> <<>>, available |-> <<>>]
UnsupportedFormat(suffix) ==
    [status |-> "unsupported_format", records |-> <<>>, missing |-> <<>>, available |-> <<suffix>>]
MissingColumns(missing, available) ==
    [status |-> "missing_columns", records |-> <<>>, missing |-> missing, available |-> available]

\* pd.read_csv raises EmptyDataError ("No columns to parse from file") for
\* a file without a header line; pd.read_excel of an empty sheet gives a
\* frame without columns
EmptyData == [status |-> "empty_data", records |-> <<>>, missing |-> <<>>, available |-> <<>>]
NoColumnsToParse(f) == LowerSuffix(f.suffix) = ".csv" /\ f.columns = <<>>

\* a column whose cells are all empty is read as float64, and each of its
\* cells becomes a float of its own in to_dict('records'); the empty cells
\* of any other column are the shared np.nan
Float64Columns(f) ==
    {c \in {f.columns[j] : j \in 1..Len(f.columns)} :
        Len(f.rows) > 0 /\ \A k \in 1..Len(f.rows) : IsNaN(f.rows[k][c])}
ReadFrame(f) ==
    [columns |-> f.columns,
     rows |-> [k \in 1..Len(f.rows) |->
                 [c \in DOMAIN f.rows[k] |->
                     IF c \in Float64Columns(f) THEN NaNOf(k) ELSE f.rows[k][c]]]]

ParseFeedbackFile(f) ==
    IF LowerSuffix(f.suffix) \notin SupportedSuffixes
    THEN UnsupportedFormat(LowerSuffix(f.suffix))
    ELSE IF NoColumnsToParse(f) THEN EmptyData
    ELSE LET df == ResolveColumns(ReadFrame(f))
         IN  IF MissingRequired(df.columns) # <<>>
             THEN MissingColumns(MissingRequired(df.columns), df.columns)
             ELSE ParseOk(ValidComments(WithDefaults(df.columns, CleanRows(df.rows))))

----------------------------------------------------------------------------
(* analyze_comment *)

\* the fallback analyze_comment returns from its except branch
CommentFallback ==
    [sentiment |-> "neutral", sentiment_score |-> ScoreHalf, themes |-> <<"general">>,
     issues |-> <<>>, issue_priority |-> None, feature_requests |-> <<>>]

\* the fallback analyze_batch substitutes for a task that raised
BatchFallback ==
    [sentiment |-> "neutral", sentiment_score |-> ScoreHalf, themes |-> <<"error">>,
     issues |-> <<>>, issue_priority |-> None, feature_requests |-> <<>>]

\* How a coroutine ended: by returning val, or by raising.
Returned(j) == [exc |-> FALSE, val |-> Some(j)]
Raised == [exc |-> TRUE, val |-> None]
Pending == [exc |-> FALSE, val |-> None]

\* What self.chain.ainvoke did: the chain is prompt | llm | parser, so a
\* provider error, a timeout and an unparsable answer all raise from ainvoke.
ChainFailed == [ok |-> FALSE, raw |-> None]
ChainParsed(j) == [ok |-> TRUE, raw |-> Some(j)]
ChainReplies == {ChainFailed} \cup {ChainParsed(j) : j \in RawSamples}

\* (variant: the except branch re-raises)
AnalyzeCommentRaising(r) ==
    IF r.ok THEN Returned(ValidateAnalysis(r.raw[1])) ELSE Raised

\* try: result = await chain.ainvoke(..); return _validate_analysis(result)
\* except Exception: return <fallback>
AnalyzeComment(r) ==
    IF r.ok THEN Returned(ValidateAnalysis(r.raw[1])) ELSE Returned(CommentFallback)

----------------------------------------------------------------------------
(* analyze_batch *)

\* max_concurrency or settings.max_concurrency
EffectiveLimit(arg) ==
    IF arg # None /\ arg[1] # 0 THEN arg[1] ELSE SettingsMaxConcurrency

\* The tasks of a batch start in list order and asyncio.Semaphore wakes its
\* waiters first come first served, so the tasks queued on the gate are
\* the first of the waiting ones, the woken ones ahead of the others; a
\* waiting task further on has not reached "async with semaphore" yet.
\* How many tasks are queued and not woken when a slot is given back: any
\* number of the waiting tasks that are not woken, and none unless the gate
\* is locked (no free slot, or a woken task that has not resumed)
QueuedChoices(value, wokenTasks, waitingTasks) ==
    {q \in 0..(waitingTasks - wokenTasks) : q > 0 => (value = 0 \/ wokenTasks > 0)}

\* (variant: the slot is given back on the success path only)
SemaphoreLeakOnFallback(value, queued, outcome) ==
    IF outcome = Returned(CommentFallback) THEN value
    ELSE IF queued > 0 THEN value ELSE value + 1

\* "async with semaphore": __aexit__ releases however the body ended.
\* release() adds the slot and, when a task is queued, takes it again for
\* the first of them, whose acquire() it resolves: the value is unchanged
SemaphoreAfterExit(value, queued, outcome) ==
    IF queued > 0 THEN value ELSE value + 1

\* the tasks handed a slot that have not resumed, after a release
WokenAfterExit(wokenTasks, queued) ==
    IF queued > 0 THEN wokenTasks + 1 ELSE wokenTasks

\* acquire() of a woken task returns: it leaves the queue and, when a slot
\* is free and a task is queued behind it, passes that slot on
\* (<<value, woken>> after the return)
GateAfterResume(value, wokenTasks, queued) ==
    IF value > 0 /\ queued > 0 THEN <<value - 1, wokenTasks>> ELSE <<value, wokenTasks - 1>>

Waiting(t) == Cardinality({i \in DOMAIN t : t[i] = "waiting"})

\* asyncio.gather resolves once every child is done
GatherReady(t) == \A i \in DOMAIN t : t[i] = "done"

\* (variant: results come back in the opposite order)
GatherResultsReversed(tr) == [i \in 1..Len(tr) |-> tr[Len(tr) + 1 - i]]

\* and hands the children's results back in the children's order
GatherResults(tr) == [i \in 1..Len(tr) |-> tr[i]]

\* the loop over results: an exception becomes the batch fallback
CollectResults(results) ==
    [i \in 1..Len(results) |->
        IF results[i].exc THEN BatchFallback ELSE results[i].val[1]]

\* the records analyze_batch is called with: comments of several lengths,
\* two products and three channels
SampleLengths == <<60, 18, 120, 160>>
SampleRecord(i) ==
    [comment |-> Text("comment", 0, SampleLengths[((i - 1) % Len(SampleLengths)) + 1], 0),
     username |-> <<"username", i>>,
     sku |-> <<"sku", ((i - 1) % 2) + 1>>,
     channel |-> <<"channel", ((i - 1) % 3) + 1>>]

InitBatch ==
    /\ vpc = "off" /\ raw = None /\ validated = None /\ revalidated = None
    /\ pc = "called"
    /\ comments_data \in {[i \in 1..n |-> SampleRecord(i)] : n \in 0..MaxRecords}
    /\ max_concurrency \in {None} \cup {Some(k) : k \in 0..MaxArg}
    /\ semaphore = None /\ woken = 0
    /\ task = <<>> /\ task_result = <<>> /\ reply = <<>> /\ call_count = <<>>
    /\ gates = 0
    /\ overtaken = FALSE
    /\ output = None
    /\ upload = None /\ parsed = None /\ raised = None
    /\ report = None /\ job_dirs = 0 /\ artifacts = <<>> /\ job_id = None
    /\ agg_args = None /\ second = None

\* if not comments_data: return []
AnalyzeBatchEmpty ==
    /\ pc = "called"
    /\ comments_data = <<>>
    /\ output' = Some(<<>>)
    /\ pc' = "returned"
    /\ UNCHANGED <<valVars, agg_args, second, fileVars, storeVars, comments_data, max_concurrency, semaphore, woken, task,
                   task_result, reply, call_count, gates, overtaken>>

\* the semaphore and one analyze_single task per record, handed to gather
Dispatch ==
    /\ pc = "called"
    /\ comments_data # <<>>
    /\ semaphore' = Some(EffectiveLimit(max_concurrency))
    /\ woken' = 0
    /\ gates' = gates + 1
    /\ task' = [i \in 1..Len(comments_data) |-> "waiting"]
    /\ task_result' = [i \in 1..Len(comments_data) |-> Pending]
    /\ reply' = [i \in 1..Len(comments_data) |-> None]
    /\ call_count' = [i \in 1..Len(comments_data) |-> 0]
    /\ pc' = "gather"
    /\ UNCHANGED <<valVars, agg_args, second, fileVars, storeVars, comments_data, max_concurrency, overtaken, output>>

\* (variant: the task does not wait for a free slot)
AdmitUngated(i) ==
    /\ pc = "gather"
    /\ i \in DOMAIN task
    /\ task[i] = "waiting"
    /\ \A j \in 1..(i - 1) : task[j] # "waiting"
    /\ semaphore' = Some(semaphore[1] - 1)
    /\ task' = [task EXCEPT ![i] = "running"]
    /\ call_count' = [call_count EXCEPT ![i] = @ + 1]
    /\ UNCHANGED <<valVars, agg_args, second, fileVars, storeVars, pc, comments_data, max_concurrency, woken,
                   task_result, reply, gates, overtaken, output>>

\* task i passes "async with semaphore" and calls analyze_comment, which
\* awaits the chain.  It is the first task still waiting.  Either no task
\* is queued and a slot is free, which it takes; or it was queued, a
\* release has handed it a slot, and it resumes.
Admit(i) ==
    /\ pc = "gather"
    /\ i \in DOMAIN task
    /\ task[i] = "waiting"
    /\ \A j \in 1..(i - 1) : task[j] # "waiting"
    /\ IF woken > 0
       THEN \E q \in QueuedChoices(semaphore[1], woken, Waiting(task)) :
                /\ semaphore' = Some(GateAfterResume(semaphore[1], woken, q)[1])
                /\ woken' = GateAfterResume(semaphore[1], woken, q)[2]
       ELSE /\ semaphore[1] > 0
            /\ semaphore' = Some(semaphore[1] - 1)
            /\ woken' = woken
    /\ task' = [task EXCEPT ![i] = "running"]
    /\ call_count' = [call_count EXCEPT ![i] = @ + 1]
    /\ UNCHANGED <<valVars, agg_args, second, fileVars, storeVars, pc, comments_data, max_concurrency, task_result,
                   reply, gates, overtaken, output>>

\* (variant: a failed call is tried once more)
ChainAnswersRetry(i, r) ==
    /\ pc = "gather"
    /\ i \in DOMAIN task
    /\ task[i] = "running"
    /\ reply' = [reply EXCEPT ![i] = Some(r)]
    /\ semaphore' = Some(semaphore[1] + 1)
    /\ IF ~r.ok /\ call_count[i] < 2
       THEN /\ task' = [task EXCEPT ![i] = "waiting"]
            /\ UNCHANGED <<task_result, overtaken>>
       ELSE /\ task' = [task EXCEPT ![i] = "done"]
            /\ task_result' = [task_result EXCEPT ![i] = AnalyzeComment(r)]
            /\ overtaken' = (overtaken \/ \E j \in 1..(i - 1) : task[j] = "running")
    /\ UNCHANGED <<valVars, agg_args, second, fileVars, storeVars, pc, comments_data, max_concurrency, woken,
                   call_count, gates, output>>

\* the chain answers task i's call: analyze_comment finishes, the task
\* leaves the "async with" block and is done
ChainAnswers(i, r) ==
    /\ pc = "gather"
    /\ i \in DOMAIN task
    /\ task[i] = "running"
    /\ reply' = [reply EXCEPT ![i] = Some(r)]
    /\ task_result' = [task_result EXCEPT ![i] = AnalyzeComment(r)]
    /\ \E q \in QueuedChoices(semaphore[1], woken, Waiting(task)) :
          /\ semaphore' = Some(SemaphoreAfterExit(semaphore[1], q, AnalyzeComment(r)))
          /\ woken' = WokenAfterExit(woken, q)
    /\ task' = [task EXCEPT ![i] = "done"]
    /\ overtaken' = (overtaken \/ \E j \in 1..(i - 1) : task[j] = "running")
    /\ UNCHANGED <<valVars, agg_args, second, fileVars, storeVars, pc, comments_data, max_concurrency, call_count,
                   gates, output>>

\* (variant: the batch returns as soon as one call has failed)
GatheredFailFast ==
    /\ pc = "gather"
    /\ GatherReady(task) \/ \E i \in DOMAIN task : task[i] = "done" /\ reply[i] = Some(ChainFailed)
    /\ output' = Some([i \in 1..Len(task_result) |->
                        IF task[i] = "done" THEN task_result[i].val[1] ELSE BatchFallback])
    /\ pc' = "returned"
    /\ UNCHANGED <<valVars, agg_args, second, fileVars, storeVars, comments_data, max_concurrency, semaphore, woken, task,
                   task_result, reply, call_count, gates, overtaken>>

\* gather resolves; the results loop builds valid_results; analyze_batch returns
Gathered ==
    /\ pc = "gather"
    /\ GatherReady(task)
    /\ output' = Some(CollectResults(GatherResults(task_result)))
    /\ pc' = "returned"
    /\ UNCHANGED <<valVars, agg_args, second, fileVars, storeVars, comments_data, max_concurrency, semaphore, woken, task,
                   task_result, reply, call_count, gates, overtaken>>

----------------------------------------------------------------------------
(* aggregate_results                                                       *)
(*                                                                         *)
(* A dict is the sequence of its <<key, value>> items in insertion order;  *)
(* the overall score is the fraction <<sum, count>> of hundredths.         *)
(***************************************************************************)

Unknown == <<"unknown">>
Media == "media"

\* collections.Counter: how often x occurs, and the keys in first-seen order
Count(items, x) == Cardinality({k \in 1..Len(items) : items[k] = x})
Reverse(xs) == [k \in 1..Len(xs) |-> xs[Len(xs) + 1 - k]]
\* (variant: the keys in the order of their last occurrence)
KeysByLastSeen(items) == Reverse(Distinct(Reverse(items)))
Keys(items) == Distinct(items)

\* (variant: keys of equal count in last-seen order)
MostCommonTiesLast(items, n) ==
    LET keys == Keys(items)
        before(a, b) == \/ Count(items, keys[a]) > Count(items, keys[b])
                        \/ Count(items, keys[a]) = Count(items, keys[b]) /\ a > b
        at(r) == CHOOSE a \in 1..Len(keys) :
                    Cardinality({b \in 1..Len(keys) : before(b, a)}) = r - 1
    IN  Take([r \in 1..Len(keys) |-> <<keys[at(r)], Count(items, keys[at(r)])>>], n)

\* Counter(items).most_common(n): <<key, count>> by decreasing count, keys
\* of equal count in first-seen order
MostCommon(items, n) ==
    LET keys == Keys(items)
        before(a, b) == \/ Count(items, keys[a]) > Count(items, keys[b])
                        \/ Count(items, keys[a]) = Count(items, keys[b]) /\ a < b
        at(r) == CHOOSE a \in 1..Len(keys) :
                    Cardinality({b \in 1..Len(keys) : before(b, a)}) = r - 1
    IN  Take([r \in 1..Len(keys) |-> <<keys[at(r)], Count(items, keys[at(r)])>>], n)

\* dict(Counter(items))
CounterItems(items) == [r \in 1..Len(Keys(items)) |-> <<Keys(items)[r], Count(items, Keys(items)[r])>>]

\* (variant: a label counts once for each list that has it)
RECURSIVE FlattenOncePerList(_)
FlattenOncePerList(lists) ==
    IF lists = <<>> THEN <<>>
    ELSE FlattenOncePerList(SubSeq(lists, 1, Len(lists) - 1)) \o Distinct(lists[Len(lists)])

RECURSIVE Flatten(_)
Flatten(lists) ==
    IF lists = <<>> THEN <<>>
    ELSE Flatten(SubSeq(lists, 1, Len(lists) - 1)) \o lists[Len(lists)]

RECURSIVE Sum(_)
Sum(xs) == IF xs = <<>> THEN 0 ELSE Sum(SubSeq(xs, 1, Len(xs) - 1)) + xs[Len(xs)]

\* the indices i of the analyses that also index comments_data, in order
Paired(analyses, comments) ==
    SelectSeq([i \in 1..Len(analyses) |-> i], LAMBDA i : i <= Len(comments))

CommentOf(record) == Get(record, "comment", Text("", 0, 0, 0))

\* _get_theme_examples
GetThemeExamples(theme, analyses, comments) ==
    LET hits == SelectSeq(Paired(analyses, comments),
                          LAMBDA i : /\ InSeq(theme, analyses[i].themes)
                                     /\ TextLen(CommentOf(comments[i])) > 0
                                     /\ TextLen(CommentOf(comments[i])) < ExampleMaxLen)
    IN  Take([k \in 1..Len(hits) |-> CommentOf(comments[hits[k]])], MaxExamples)

\* if analysis.issue_priority: issue_priorities[issue] = analysis.issue_priority
Truthy(p) == p # None /\ p[1] # ""

\* issue_priorities.get(issue, "media"): the last assignment stays
IssuePriority(issue, analyses) ==
    LET citing == {i \in 1..Len(analyses) :
                     InSeq(issue, analyses[i].issues) /\ Truthy(analyses[i].issue_priority)}
    IN  IF citing = {} THEN Media
        ELSE analyses[CHOOSE i \in citing : \A j \in citing : j <= i].issue_priority[1]

\* (variant: a score of exactly 0.8 qualifies)
GenerateHighlightsFromScore(analyses, comments) ==
    LET hits == SelectSeq(Paired(analyses, comments),
                          LAMBDA i : /\ analyses[i].sentiment = "positive"
                                     /\ analyses[i].sentiment_score >= HighlightScore
                                     /\ TextLen(CommentOf(comments[i])) > HighlightMinLen
                                     /\ TextLen(CommentOf(comments[i])) < HighlightMaxLen)
    IN  Take([k \in 1..Len(hits) |->
                [quote |-> CommentOf(comments[hits[k]]),
                 sku |-> Get(comments[hits[k]], "sku", None),
                 channel |-> Get(comments[hits[k]], "channel", None)]], MaxHighlights)

\* _generate_highlights
GenerateHighlights(analyses, comments) ==
    LET hits == SelectSeq(Paired(analyses, comments),
                          LAMBDA i : /\ analyses[i].sentiment = "positive"
                                     /\ analyses[i].sentiment_score > HighlightScore
                                     /\ TextLen(CommentOf(comments[i])) > HighlightMinLen
                                     /\ TextLen(CommentOf(comments[i])) < HighlightMaxLen)
    IN  Take([k \in 1..Len(hits) |->
                [quote |-> CommentOf(comments[hits[k]]),
                 sku |-> Get(comments[hits[k]], "sku", None),
                 channel |-> Get(comments[hits[k]], "channel", None)]], MaxHighlights)

\* _aggregate_by_field
AggregateByField(analyses, comments, field) ==
    LET idx == Paired(analyses, comments)
        value(i) == Get(comments[i], field, Unknown)
        keys == Keys([k \in 1..Len(idx) |-> value(idx[k])])
        members(key) == SelectSeq(idx, LAMBDA i : value(i) = key)
        of(key, f(_)) == [k \in 1..Len(members(key)) |-> f(analyses[members(key)[k]])]
        sentimentOf(a) == a.sentiment
        themesOf(a) == a.themes
        issuesOf(a) == a.issues
        names(pairs) == [k \in 1..Len(pairs) |-> pairs[k][1]]
    IN  [r \in 1..Len(keys) |->
            <<keys[r],
              [total_comments |-> Len(members(keys[r])),
               sentiment_distribution |-> CounterItems(of(keys[r], sentimentOf)),
               top_themes |-> names(MostCommon(Flatten(of(keys[r], themesOf)), BucketThemes)),
               top_issues |-> names(MostCommon(Flatten(of(keys[r], issuesOf)), BucketIssues))]>>]

\* (variant: the empty report scores 0)
ZeroReportScoreless ==
    [overall_sentiment |-> [label |-> "neutral", score |-> <<0, 1>>],
     themes |-> <<>>, top_issues |-> <<>>, feature_requests |-> <<>>,
     highlights |-> <<>>, by_sku |-> <<>>, by_channel |-> <<>>]

\* (variant: every score is counted, the zeros too)
CountedScoresAll(xs) == xs

\* [a.sentiment_score for a in analyses if a.sentiment_score > 0]
CountedScores(xs) == SelectSeq(xs, LAMBDA x : x > 0)

\* the keyword arguments aggregate_results builds the response from
ZeroReport ==
    [overall_sentiment |-> [label |-> "neutral", score |-> <<ScoreHalf, 1>>],
     themes |-> <<>>, top_issues |-> <<>>, feature_requests |-> <<>>,
     highlights |-> <<>>, by_sku |-> <<>>, by_channel |-> <<>>]

ReportFields(analyses, comments) ==
    IF analyses = <<>> THEN ZeroReport
    ELSE
    LET sentiments == [i \in 1..Len(analyses) |-> analyses[i].sentiment]
        all_scores == [i \in 1..Len(analyses) |-> analyses[i].sentiment_score]
        scores == CountedScores(all_scores)
        themes == MostCommon(Flatten([i \in 1..Len(analyses) |-> analyses[i].themes]), MaxRanked)
        issues == MostCommon(Flatten([i \in 1..Len(analyses) |-> analyses[i].issues]), MaxRanked)
        requests == MostCommon(Flatten([i \in 1..Len(analyses) |-> analyses[i].feature_requests]),
                               MaxRanked)
    IN  [overall_sentiment |->
            [label |-> MostCommon(sentiments, 1)[1][1],
             score |-> IF scores # <<>> THEN <<Sum(scores), Len(scores)>> ELSE <<ScoreHalf, 1>>],
         themes |-> [k \in 1..Len(themes) |->
                        [name |-> themes[k][1],
                         examples |-> GetThemeExamples(themes[k][1], analyses, comments)]],
         top_issues |-> [k \in 1..Len(issues) |->
                        [issue |-> issues[k][1], count |-> issues[k][2],
                         priority |-> IssuePriority(issues[k][1], analyses)]],
         feature_requests |-> [k \in 1..Len(requests) |->
                        [request |-> requests[k][1], count |-> requests[k][2]]],
         highlights |-> GenerateHighlights(analyses, comments),
         by_sku |-> AggregateByField(analyses, comments, "sku"),
         by_channel |-> AggregateByField(analyses, comments, "channel")]

\* pydantic: a str field takes a str only (None and NaN are not one)
IsStr(v) == v # None /\ ~IsNaN(v)

\* Highlight(channel: Optional[str]) and by_channel: Dict[str, Any] validate
ResponseValidates(fields) ==
    /\ \A k \in 1..Len(fields.highlights) :
          fields.highlights[k].channel = None \/ IsStr(fields.highlights[k].channel)
    /\ \A k \in 1..Len(fields.by_channel) : IsStr(fields.by_channel[k][1])

\* FeedbackAnalyzeResponse(**fields): the model keeps its declared fields
\* (neither the report nor a Highlight declares a sku field)
FeedbackAnalyzeResponse(fields) ==
    [overall_sentiment |-> fields.overall_sentiment,
     themes |-> fields.themes,
     top_issues |-> fields.top_issues,
     feature_requests |-> fields.feature_requests,
     highlights |-> [k \in 1..Len(fields.highlights) |->
                        [quote |-> fields.highlights[k].quote,
                         channel |-> fields.highlights[k].channel]],
     by_channel |-> fields.by_channel]

\* result = self.chain.aggregate_results(analyses, comments_data), entered
\* with the list analyze_batch returned; a response that does not validate
\* raises
AggregateResults ==
    /\ pc = "returned"
    /\ LET fields == ReportFields(output[1], comments_data)
       IN  IF ResponseValidates(fields)
           THEN /\ report' = Some(FeedbackAnalyzeResponse(fields))
                /\ pc' = "aggregated"
                /\ UNCHANGED raised
           ELSE /\ pc' = "failed"
                /\ raised' = Some("validation_error")
                /\ UNCHANGED report
    /\ UNCHANGED <<valVars, agg_args, second, upload, parsed, job_dirs, artifacts, job_id, comments_data,
                   max_concurrency, semaphore, woken, task, task_result, reply, call_count, gates,
                   overtaken, output>>

----------------------------------------------------------------------------
(* aggregate_results called on its own, as the tests do: the judgments and *)
(* the records it is given                                                 *)

Judgment(label, score, themes, issues, priority, requests) ==
    [sentiment |-> label, sentiment_score |-> score, themes |-> themes,
     issues |-> issues, issue_priority |-> priority, feature_requests |-> requests]

\* a record with a comment of n characters
RecordOfLength(i, n) == [SampleRecord(i) EXCEPT !.comment = Text("comment", 0, n, 0)]

AggInput(analyses, records) == [analyses |-> analyses, records |-> records]
\* the judgments over the sample records
OverSamples(analyses) == AggInput(analyses, [i \in 1..Len(analyses) |-> SampleRecord(i)])
NonEmptyUpTo(S, n) == SeqsUpTo(S, n) \ {<<>>}

\* labels and scores as _validate_analysis leaves them: a valid label and a
\* score in [0,1]
SentimentJudgments ==
    {Judgment(l, x, <<"sabor">>, <<>>, None, <<>>) :
        l \in ValidSentiments, x \in {0, 50, 90}}
SentimentCases == {OverSamples(a) : a \in NonEmptyUpTo(SentimentJudgments, MaxJudgments)}

\* mock_comment_analysis over sample_comments_data
FixtureCase ==
    AggInput(<<Judgment("positive", 90, <<"sabor", "textura">>, <<>>, None, <<>>),
               Judgment("neutral", 60, <<"sabor", "textura">>, <<<<"s">>>>, Some("media"), <<>>),
               Judgment("negative", 20, <<"precio">>, <<<<"p">>>>, Some("alta"), <<>>),
               Judgment("neutral", 70, <<"variedad">>, <<>>, None, <<<<"v">>>>),
               Judgment("positive", 80, <<"calidad">>, <<>>, None, <<>>)>>,
             <<[RecordOfLength(1, 60) EXCEPT !.sku = <<"sku", 1>>, !.channel = <<"channel", 1>>],
               [RecordOfLength(2, 52) EXCEPT !.sku = <<"sku", 1>>, !.channel = <<"channel", 2>>],
               [RecordOfLength(3, 51) EXCEPT !.sku = <<"sku", 2>>, !.channel = <<"channel", 3>>],
               [RecordOfLength(4, 50) EXCEPT !.sku = <<"sku", 1>>, !.channel = <<"channel", 2>>],
               [RecordOfLength(5, 53) EXCEPT !.sku = <<"sku", 2>>, !.channel = <<"channel", 1>>]>>)

\* issues and their priorities
IssueJudgments ==
    {Judgment("negative", 20, <<"precio">>, is, p, <<>>) :
        is \in {<<>>, <<<<"a">>>>, <<<<"b">>, <<"a">>>>},
        p \in {None, Some(""), Some("alta"), Some("baja")}}
IssueCases == {OverSamples(a) : a \in NonEmptyUpTo(IssueJudgments, MaxJudgments)}

\* themes and feature requests
ThemeJudgments ==
    {Judgment("neutral", 60, ts, <<>>, None, rs) :
        ts \in {<<"sabor">>, <<"precio", "sabor">>, <<"precio", "precio">>},
        rs \in {<<>>, <<<<"r">>>>, <<<<"s">>, <<"r">>>>}}
ThemeCases == {OverSamples(a) : a \in NonEmptyUpTo(ThemeJudgments, MaxJudgments)}

\* twelve labels, three to a judgment, and a fifth judgment that cites two
\* of them again
Labels == <<"a", "b", "c", "d", "e", "f", "g", "h", "i", "j", "k", "l">>
LabelTriple(n) == <<Labels[3 * n - 2], Labels[3 * n - 1], Labels[3 * n]>>
AsTheme(x) == x
AsIssue(x) == <<x>>
AsRequest(x) == <<x, "r">>
ManyLabels(k, m) ==
    [n \in 1..5 |->
        IF n < 5
        THEN Judgment("neutral", 60,
                      [j \in 1..3 |-> AsTheme(LabelTriple(n)[j])],
                      [j \in 1..3 |-> AsIssue(LabelTriple(n)[j])],
                      Some("alta"),
                      [j \in 1..3 |-> AsRequest(LabelTriple(n)[j])])
        ELSE Judgment("neutral", 60, <<Labels[k], Labels[m]>>,
                      <<<<Labels[k]>>, <<Labels[m]>>>>, Some("baja"),
                      <<<<Labels[k], "r">>, <<Labels[m], "r">>>>)]
ManyLabelCases ==
    {OverSamples(ManyLabels(k, m)) : k \in 1..Len(Labels), m \in 1..Len(Labels)}

\* candidates for a highlight
HighlightKinds ==
    {[label |-> "positive", score |-> 90, len |-> n] : n \in {20, 21, 149, 150}}
    \cup {[label |-> "positive", score |-> 80, len |-> 21],
          [label |-> "positive", score |-> 81, len |-> 149],
          [label |-> "neutral", score |-> 90, len |-> 21]}
HighlightInput(kinds) ==
    AggInput([i \in 1..Len(kinds) |->
                Judgment(kinds[i].label, kinds[i].score, <<"sabor">>, <<>>, None, <<>>)],
             [i \in 1..Len(kinds) |-> RecordOfLength(i, kinds[i].len)])
HighlightCases == {HighlightInput(k) : k \in NonEmptyUpTo(HighlightKinds, MaxJudgments)}
\* seven candidates, all but the one at position k good
ManyHighlights(k) ==
    HighlightInput([i \in 1..7 |->
        [label |-> "positive", score |-> IF i = k THEN 80 ELSE 90, len |-> 21 + i]])
ManyHighlightCases == {ManyHighlights(k) : k \in 1..7}

\* records with and without a channel and a product
PlainRecord(i) == [comment |-> Text("comment", 0, 60, 0), username |-> <<"username", i>>]
With(record, key, value) ==
    [c \in DOMAIN record \cup {key} |-> IF c = key THEN value ELSE record[c]]
ChannelKinds == {"absent", "null", "nan", "own_nan", "one", "two"}
SkuKinds == {"absent", "one"}
GroupRecord(i, kind) ==
    LET r == IF kind.sku = "absent" THEN PlainRecord(i)
             ELSE With(PlainRecord(i), "sku", <<"sku", 1>>)
    IN  CASE kind.channel = "absent" -> r
          [] kind.channel = "null" -> With(r, "channel", None)
          [] kind.channel = "nan" -> With(r, "channel", NaN)
          [] kind.channel = "own_nan" -> With(r, "channel", NaNOf(i))
          [] kind.channel = "one" -> With(r, "channel", <<"channel", 1>>)
          [] OTHER -> With(r, "channel", <<"channel", 2>>)
GroupInput(kinds) ==
    AggInput([i \in 1..Len(kinds) |->
                Judgment(IF i % 2 = 1 THEN "positive" ELSE "negative", 60,
                         <<"sabor">>, <<<<"a">>>>, None, <<>>)],
             [i \in 1..Len(kinds) |-> GroupRecord(i, kinds[i])])
GroupCases ==
    {GroupInput(k) : k \in NonEmptyUpTo([channel : ChannelKinds, sku : SkuKinds], MaxJudgments)}

AggInputs ==
    SentimentCases \cup {FixtureCase} \cup IssueCases \cup ThemeCases \cup ManyLabelCases
    \cup HighlightCases \cup ManyHighlightCases \cup GroupCases

\* aggregate_results(analyses, comments_data) has been called
InitAggregate ==
    /\ vpc = "off" /\ raw = None /\ validated = None /\ revalidated = None
    /\ pc = "agg_called"
    /\ agg_args \in {Some(x) : x \in AggInputs}
    /\ second = None
    /\ comments_data = <<>> /\ max_concurrency = None
    /\ semaphore = None /\ woken = 0 /\ task = <<>> /\ task_result = <<>> /\ reply = <<>>
    /\ call_count = <<>> /\ gates = 0 /\ overtaken = FALSE /\ output = None
    /\ upload = None /\ parsed = None /\ raised = None /\ report = None
    /\ job_dirs = 0 /\ artifacts = <<>> /\ job_id = None

\* aggregate_results runs to its return, or raises when the response does
\* not validate
CallAggregateResults ==
    /\ pc = "agg_called"
    /\ LET fields == ReportFields(agg_args[1].analyses, agg_args[1].records)
       IN  IF ResponseValidates(fields)
           THEN /\ report' = Some(FeedbackAnalyzeResponse(fields))
                /\ pc' = "agg_returned"
                /\ UNCHANGED raised
           ELSE /\ pc' = "agg_raised"
                /\ raised' = Some("validation_error")
                /\ UNCHANGED report
    /\ UNCHANGED <<valVars, agg_args, second, upload, parsed, job_dirs, artifacts, job_id, comments_data,
                   max_concurrency, semaphore, woken, task, task_result, reply, call_count, gates,
                   overtaken, output>>

----------------------------------------------------------------------------
(* analyze_file: the uploaded files *)

\* the column names a header is drawn from, in file order
HeaderPool == <<"comment", "comentario", "feedback", "username", "user", "usuario",
                "channel", "canal", "sku", "producto", "fecha">>
Headers == {SelectSeq(HeaderPool, LAMBDA c : c \in S) :
                S \in SUBSET {HeaderPool[k] : k \in 1..Len(HeaderPool)}}

CommentVariations == ColumnMapping[1][2]

\* a filled cell of column c in row k
Cell(c, k) == IF InSeq(c, CommentVariations) THEN Text(c, 0, 45, 0) ELSE <<c, k>>

FilledRow(header, k) == [c \in {header[j] : j \in 1..Len(header)} |-> Cell(c, k)]

\* every header, over one well-formed row; the empty header is a file
\* without a header line
HeaderFiles ==
    {[suffix |-> ".csv", columns |-> h, rows |-> <<FilledRow(h, 1)>>] : h \in Headers}

\* the comment cells that matter to the length filter
CommentCells ==
    {NaN,
     Text("comment", 0, 0, 2),       \* blanks only
     Text("comment", 0, 2, 0),
     Text("comment", 2, 5, 3),       \* 5 characters once stripped
     Text("comment", 0, 6, 0),
     Text("comment", 1, 999, 1),     \* 999 characters once stripped
     Text("comment", 0, 1000, 0)}

RowHeader == <<"comment", "username", "channel", "sku">>

RowKinds ==
    {[comment |-> c, username |-> TRUE, channel |-> TRUE] : c \in CommentCells}
    \cup {[comment |-> Text("comment", 0, 6, 0), username |-> FALSE, channel |-> TRUE],
          [comment |-> Text("comment", 0, 6, 0), username |-> TRUE, channel |-> FALSE]}

KindRow(kind, k) ==
    [c \in {"comment", "username", "channel", "sku"} |->
        CASE c = "comment" -> kind.comment
          [] c = "username" -> IF kind.username THEN <<c, k>> ELSE NaN
          [] c = "channel" -> IF kind.channel THEN <<c, k>> ELSE NaN
          [] OTHER -> <<c, k>>]

\* one header, over every sequence of at most MaxRows rows
RowFiles ==
    {[suffix |-> ".csv", columns |-> RowHeader,
      rows |-> [k \in 1..Len(kinds) |-> KindRow(kinds[k], k)]] :
        kinds \in SeqsUpTo(RowKinds, MaxRows)}

Suffixes == {".csv", ".CSV", ".xlsx", ".Xlsx", ".xls", ".XLS", ".txt", ".json", ".pdf", ""}

SuffixFiles ==
    {[suffix |-> x, columns |-> RowHeader, rows |-> <<FilledRow(RowHeader, 1)>>] :
        x \in Suffixes}

\* a workbook whose first sheet is empty
EmptySheet == [suffix |-> ".xlsx", columns |-> <<>>, rows |-> <<>>]

Uploads == HeaderFiles \cup RowFiles \cup SuffixFiles \cup {EmptySheet}

InitFile ==
    /\ vpc = "off" /\ raw = None /\ validated = None /\ revalidated = None
    /\ pc = "upload"
    /\ upload \in {Some(f) : f \in Uploads}
    /\ comments_data = <<>> /\ max_concurrency = None
    /\ semaphore = None /\ woken = 0 /\ task = <<>> /\ task_result = <<>> /\ reply = <<>>
    /\ call_count = <<>> /\ gates = 0 /\ overtaken = FALSE /\ output = None
    /\ parsed = None /\ raised = None
    /\ report = None /\ job_dirs = 0 /\ artifacts = <<>> /\ job_id = None
    /\ agg_args = None /\ second = None

\* comments_data = await self._parse_feedback_file(file); what it raises
\* leaves analyze_file through "except Exception: raise"
ParseFile ==
    /\ pc = "upload"
    /\ LET result == ParseFeedbackFile(upload[1])
       IN  /\ parsed' = Some(result)
           /\ pc' = IF result.status = "ok" THEN "parsed" ELSE "rejected"
           /\ raised' = IF result.status = "ok" THEN None ELSE Some(result.status)
    /\ UNCHANGED <<valVars, agg_args, second, storeVars, upload, comments_data, max_concurrency, semaphore, woken,
                   task, task_result, reply, call_count, gates, overtaken, output>>

\* (variant: an empty list of comments is analysed like any other)
CallAnalyzeBatchUnchecked ==
    /\ pc = "parsed"
    /\ comments_data' = parsed[1].records
    /\ pc' = "called"
    /\ UNCHANGED <<valVars, agg_args, second, fileVars, storeVars, max_concurrency, semaphore, woken,
                   task, task_result, reply, call_count, gates, overtaken, output>>

\* if not comments_data: raise ValueError("No valid comments found in file");
\* else analyze_batch(comments_data) is called, without a max_concurrency
CallAnalyzeBatch ==
    /\ pc = "parsed"
    /\ IF parsed[1].records = <<>>
       THEN /\ pc' = "rejected"
            /\ raised' = Some("no_valid_comments")
            /\ UNCHANGED comments_data
       ELSE /\ pc' = "called"
            /\ comments_data' = parsed[1].records
            /\ UNCHANGED raised
    /\ UNCHANGED <<valVars, agg_args, second, storeVars, upload, parsed, max_concurrency, semaphore, woken,
                   task, task_result, reply, call_count, gates, overtaken, output>>

\* The storage calls of _save_analysis_results and where one of them fails:
\* 0 none; 1 create_job_directory; 2 the first save_metadata, before its
\* file exists; 3 the first save_metadata while writing (the file is left
\* truncated) or the second before its file exists; 4 the second
\* save_metadata while writing, export_data.json being left truncated
SaveFailures == {0, 1, 2, 3, 4}
FilesAfterSave(fail) ==
    CASE fail \in {1, 2} -> <<>>
      [] fail = 3 -> <<"analysis_results.json">>
      [] OTHER -> <<"analysis_results.json", "export_data.json">>

\* (variant: a storage failure is not caught and analyze_file raises)
SaveAnalysisResultsRaising(fail) ==
    /\ pc = "aggregated"
    /\ upload # None
    /\ job_dirs' = IF fail = 1 THEN job_dirs ELSE job_dirs + 1
    /\ artifacts' = FilesAfterSave(fail)
    /\ job_id' = IF fail = 0 THEN Some(<<"job", job_dirs + 1>>) ELSE job_id
    /\ raised' = IF fail = 0 THEN raised ELSE Some("storage_error")
    /\ pc' = IF fail = 0 THEN "saved" ELSE "failed"
    /\ UNCHANGED <<valVars, agg_args, second, upload, parsed, report, comments_data, max_concurrency,
                   semaphore, woken, task, task_result, reply, call_count, gates, overtaken, output>>

\* _save_analysis_results: create_job_directory, then the two save_metadata
\* calls; the first of them to fail ends it with "error", the files made
\* until then staying in the job directory.  analyze_file then returns the
\* report.
SaveAnalysisResults(fail) ==
    /\ pc = "aggregated"
    /\ upload # None
    /\ job_dirs' = IF fail = 1 THEN job_dirs ELSE job_dirs + 1
    /\ artifacts' = FilesAfterSave(fail)
    /\ job_id' = IF fail = 0 THEN Some(<<"job", job_dirs + 1>>) ELSE Some(<<"error">>)
    /\ pc' = "saved"
    /\ UNCHANGED <<valVars, agg_args, second, fileVars, report, comments_data, max_concurrency, semaphore, woken,
                   task, task_result, reply, call_count, gates, overtaken, output>>

\* the positions after _save_analysis_results
AfterSave == {"saved", "exported_none", "image_saved", "cleaned"}

\* the ids a client may ask an export for
ExportIds == {<<"job", 1>>, <<"error">>}

\* export_results_to_excel(id), called for POST /export/{job_id} after an
\* analysis.  load_metadata gives None unless export_data.json of that job
\* exists and is whole, and then nothing is written.  Otherwise the
\* workbook is opened at feedback_analysis.xlsx in the job directory and
\* the sheets are filled until analysis_results['by_sku'] raises KeyError
\* (the saved report has no such key); leaving the ExcelWriter block saves
\* the workbook, unless that fails too (written = FALSE); the handler
\* returns None.
ExportResultsToExcel(id, written) ==
    /\ pc = "saved"
    /\ upload # None
    /\ artifacts' = IF job_id = Some(id) /\ id # <<"error">> /\ InSeq("export_data.json", artifacts) /\ written
                    THEN Append(artifacts, "feedback_analysis.xlsx")
                    ELSE artifacts
    /\ pc' = "exported_none"
    /\ UNCHANGED <<valVars, agg_args, second, fileVars, report, job_dirs, job_id, comments_data, max_concurrency,
                   semaphore, woken, task, task_result, reply, call_count, gates, overtaken, output>>

\* storage.save_image(id, image_bytes) with the default file name, called
\* on the storage service after an analysis: open(job_dir / "image.png",
\* "wb") creates the file in the job directory of that id, and raises to
\* the caller when there is no such directory or the file cannot be opened
\* (written = FALSE)
SaveImage(id, written) ==
    /\ pc \in {"saved", "exported_none"}
    /\ upload # None
    /\ artifacts' = IF id = <<"job", 1>> /\ job_dirs > 0 /\ written /\ ~InSeq("image.png", artifacts)
                    THEN Append(artifacts, "image.png")
                    ELSE artifacts
    /\ pc' = "image_saved"
    /\ UNCHANGED <<valVars, agg_args, second, fileVars, report, job_dirs, job_id, comments_data, max_concurrency,
                   semaphore, woken, task, task_result, reply, call_count, gates, overtaken, output>>

\* shutil.rmtree(job_dir) removes the entries of the directory one by one,
\* in the order the file system lists them, then the directory; it raises
\* at the first thing it cannot remove.  Either everything is gone, or the
\* directory stays with any part of its files.
RmtreeOutcomes(files) ==
    {[removed |-> TRUE, left |-> <<>>]}
    \cup {[removed |-> FALSE, left |-> SelectSeq(files, LAMBDA x : x \in S)] :
            S \in SUBSET {files[k] : k \in 1..Len(files)}}

\* storage.cleanup_old_artifacts(days_old): each job directory is looked at
\* on its own; the one whose modification time is older than the cutoff
\* (old) goes through rmtree, and what rmtree raises is logged and
\* swallowed by "except Exception", so the call returns None either way
CleanupOldArtifacts(old, outcome) ==
    /\ pc \in {"saved", "exported_none", "image_saved"}
    /\ upload # None
    /\ IF old /\ job_dirs > 0
       THEN /\ job_dirs' = IF outcome.removed THEN job_dirs - 1 ELSE job_dirs
            /\ artifacts' = outcome.left
       ELSE UNCHANGED <<job_dirs, artifacts>>
    /\ pc' = "cleaned"
    /\ UNCHANGED <<valVars, agg_args, second, fileVars, report, job_id, comments_data, max_concurrency,
                   semaphore, woken, task, task_result, reply, call_count, gates, overtaken, output>>

----------------------------------------------------------------------------
(* Two analyze_batch invocations on the same chain, their coroutines       *)
(* interleaved by the event loop.  The first invocation uses the batch     *)
(* variables; the locals of the second are the fields of "second".         *)

\* both invocations have been called, each with two records and its own
\* max_concurrency argument
InitInterleaved ==
    /\ vpc = "off" /\ raw = None /\ validated = None /\ revalidated = None
    /\ pc = "called"
    /\ comments_data = <<SampleRecord(1), SampleRecord(2)>>
    /\ max_concurrency \in {Some(k) : k \in 0..MaxArg}
    /\ semaphore = None /\ woken = 0
    /\ task = <<>> /\ task_result = <<>> /\ reply = <<>> /\ call_count = <<>>
    /\ gates = 0
    /\ overtaken = FALSE
    /\ output = None
    /\ upload = None /\ parsed = None /\ raised = None
    /\ report = None /\ job_dirs = 0 /\ artifacts = <<>> /\ job_id = None
    /\ agg_args = None
    /\ second \in {Some([pc |-> "called",
                         comments_data |-> <<SampleRecord(3), SampleRecord(4)>>,
                         max_concurrency |-> Some(k),
                         semaphore |-> None,
                         woken |-> 0,
                         task |-> <<>>,
                         task_result |-> <<>>,
                         output |-> None]) : k \in 0..MaxArg}

\* the second invocation's steps leave the first invocation alone
OnlySecond ==
    UNCHANGED <<valVars, batchVars, fileVars, storeVars, agg_args>>

\* second invocation: its own semaphore and its tasks, handed to gather
DispatchSecond ==
    /\ second # None
    /\ second[1].pc = "called"
    /\ second[1].comments_data # <<>>
    /\ second' = Some([second[1] EXCEPT
                         !.semaphore = Some(EffectiveLimit(second[1].max_concurrency)),
                         !.task = [i \in 1..Len(second[1].comments_data) |-> "waiting"],
                         !.task_result = [i \in 1..Len(second[1].comments_data) |-> Pending],
                         !.pc = "gather"])
    /\ OnlySecond

\* (variant: one semaphore for the chain, so the second invocation's tasks
\* take their slots from the gate the first invocation made)
AdmitSecondShared(i) ==
    /\ second # None
    /\ second[1].pc = "gather"
    /\ i \in DOMAIN second[1].task
    /\ second[1].task[i] = "waiting"
    /\ \A j \in 1..(i - 1) : second[1].task[j] # "waiting"
    /\ semaphore # None
    /\ semaphore[1] > 0
    /\ semaphore' = Some(semaphore[1] - 1)
    /\ second' = Some([second[1] EXCEPT !.task[i] = "running"])
    /\ UNCHANGED <<valVars, fileVars, storeVars, agg_args, pc, comments_data, max_concurrency, woken,
                   task, task_result, reply, call_count, gates, overtaken, output>>

\* second invocation: task i passes "async with semaphore", the semaphore
\* being the one this invocation created
AdmitSecond(i) ==
    /\ second # None
    /\ second[1].pc = "gather"
    /\ i \in DOMAIN second[1].task
    /\ second[1].task[i] = "waiting"
    /\ \A j \in 1..(i - 1) : second[1].task[j] # "waiting"
    /\ IF second[1].woken > 0
       THEN \E q \in QueuedChoices(second[1].semaphore[1], second[1].woken, Waiting(second[1].task)) :
                second' = Some([second[1] EXCEPT
                    !.semaphore = Some(GateAfterResume(second[1].semaphore[1], second[1].woken, q)[1]),
                    !.woken = GateAfterResume(second[1].semaphore[1], second[1].woken, q)[2],
                    !.task[i] = "running"])
       ELSE /\ second[1].semaphore[1] > 0
            /\ second' = Some([second[1] EXCEPT !.semaphore = Some(@[1] - 1),
                                                !.task[i] = "running"])
    /\ OnlySecond

\* second invocation: the chain answers task i's call and the task leaves
\* the "async with" block
ChainAnswersSecond(i, r) ==
    /\ second # None
    /\ second[1].pc = "gather"
    /\ i \in DOMAIN second[1].task
    /\ second[1].task[i] = "running"
    /\ \E q \in QueuedChoices(second[1].semaphore[1], second[1].woken, Waiting(second[1].task)) :
          second' = Some([second[1] EXCEPT
                            !.task_result[i] = AnalyzeComment(r),
                            !.semaphore = Some(SemaphoreAfterExit(@[1], q, AnalyzeComment(r))),
                            !.woken = WokenAfterExit(@, q),
                            !.task[i] = "done"])
    /\ OnlySecond

\* second invocation: gather resolves and analyze_batch returns
GatheredSecond ==
    /\ second # None
    /\ second[1].pc = "gather"
    /\ GatherReady(second[1].task)
    /\ second' = Some([second[1] EXCEPT
                         !.output = Some(CollectResults(GatherResults(second[1].task_result))),
                         !.pc = "returned"])
    /\ OnlySecond

----------------------------------------------------------------------------
Init == InitValidate \/ InitBatch \/ InitFile \/ InitAggregate \/ InitInterleaved

Next ==
    \/ Validate
    \/ Revalidate
    \/ AnalyzeBatchEmpty
    \/ Dispatch
    \/ \E i \in 1..MaxRecords : Admit(i)
    \/ \E i \in 1..MaxRecords : \E r \in ChainReplies : ChainAnswers(i, r)
    \/ Gathered
    \/ AggregateResults
    \/ ParseFile
    \/ CallAnalyzeBatch
    \/ \E fail \in SaveFailures : SaveAnalysisResults(fail)
    \/ \E id \in ExportIds : \E written \in BOOLEAN : ExportResultsToExcel(id, written)
    \/ \E id \in ExportIds : \E written \in BOOLEAN : SaveImage(id, written)
    \/ \E old \in BOOLEAN : \E outcome \in RmtreeOutcomes(artifacts) : CleanupOldArtifacts(old, outcome)
    \/ CallAggregateResults
    \/ DispatchSecond
    \/ \E i \in 1..MaxRecords : AdmitSecond(i)
    \/ \E i \in 1..MaxRecords : \E r \in ChainReplies : ChainAnswersSecond(i, r)
    \/ GatheredSecond

Spec == Init /\ [][Next]_vars

\* the steps of analyze_batch
BatchNext ==
    \/ AnalyzeBatchEmpty
    \/ Dispatch
    \/ \E i \in 1..MaxRecords : Admit(i)
    \/ \E i \in 1..MaxRecords : \E r \in ChainReplies : ChainAnswers(i, r)
    \/ Gathered

\* The event loop keeps running whatever is ready, and every chain call
\* returns or raises (the client has a request timeout): while analyze_batch
\* has an enabled step, one is taken.
FairSpec == Spec /\ WF_vars(BatchNext)

----------------------------------------------------------------------------
(* Properties *)

BatchReturned == pc \in {"returned", "aggregated"} \cup AfterSave
NumRecords == Len(comments_data)
InFlight == Cardinality({i \in DOMAIN task : task[i] = "running"})
ChainFailedFor(i) == reply[i] = Some(ChainFailed)

\* C1: whatever the order in which the analyzer calls complete, analyze_batch
\* returns as many judgments as it was given records, and the judgment at
\* index i is the one the analyze_comment call for record i returned.
C1_PositionalCorrespondence ==
    BatchReturned =>
        /\ Len(output[1]) = NumRecords
        /\ \A i \in 1..NumRecords :
              /\ ~task_result[i].exc
              /\ task_result[i].val # None
              /\ output[1][i] = task_result[i].val[1]

\* a batch in which calls completed out of list order, with different
\* judgments at neighbouring positions, has returned
C1_Witness ==
    /\ BatchReturned
    /\ NumRecords >= 3
    /\ overtaken
    /\ output[1][1] # output[1][2]
    /\ output[1][2] # output[1][3]

\* C2 (as claimed): while a batch runs, the analyzer calls in flight never
\* exceed the effective limit, the semaphore's free slots are exactly the
\* limit minus the calls in flight (a slot is held exactly while its call
\* is in flight, however the call ends), and every slot is free once the
\* batch has returned.
C2_GateBound ==
    semaphore # None =>
        /\ InFlight <= EffectiveLimit(max_concurrency)
        /\ semaphore[1] = EffectiveLimit(max_concurrency) - InFlight
        /\ BatchReturned => semaphore[1] = EffectiveLimit(max_concurrency)

\* C2 (amended): while a batch runs, the analyzer calls in flight never
\* exceed the effective limit; every slot is free, held by a call in
\* flight, or handed by a call that ended (by success or by failure) to a
\* queued task whose call has not started yet; and every slot is free once
\* the batch has returned.
C2_GateBoundHandOff ==
    semaphore # None =>
        /\ InFlight <= EffectiveLimit(max_concurrency)
        /\ semaphore[1] >= 0
        /\ woken <= Waiting(task)
        /\ semaphore[1] + InFlight + woken = EffectiveLimit(max_concurrency)
        /\ BatchReturned => (semaphore[1] = EffectiveLimit(max_concurrency) /\ woken = 0)

\* a failed call has handed its slot to a queued task that has not resumed:
\* no slot is free although fewer calls than the limit are in flight
C2_Witness ==
    /\ pc = "gather"
    /\ semaphore[1] = 0
    /\ woken > 0
    /\ InFlight < EffectiveLimit(max_concurrency)
    /\ \E i \in DOMAIN task : task[i] = "waiting"
    /\ \E i \in DOMAIN task : task[i] = "done" /\ ChainFailedFor(i)

\* C3: analyze_comment never raises: every finished call has returned a
\* judgment, also when the chain failed; a call that finishes leaves the
\* results of the other calls as they were; and in the returned batch every
\* record whose chain call succeeded has its own normalised judgment,
\* whatever happened to the other records.
C3_NeverRaises ==
    /\ [](\A i \in DOMAIN task :
            task[i] = "done" => ~task_result[i].exc /\ task_result[i].val # None)
    /\ [](BatchReturned =>
            \A i \in 1..NumRecords :
                reply[i][1].ok => output[1][i] = ValidateAnalysis(reply[i][1].raw[1]))
    /\ [][\A j \in DOMAIN task :
            task[j] = "done" =>
                /\ j \in DOMAIN task'
                /\ task'[j] = "done"
                /\ task_result'[j] = task_result[j]]_vars

\* a batch has returned in which one call failed between two that succeeded
C3_Witness ==
    /\ BatchReturned
    /\ NumRecords >= 3
    /\ reply[1] = Some(ChainParsed(MessySample))
    /\ ChainFailedFor(2)
    /\ reply[3] = Some(ChainParsed(BaseRaw))
    /\ output[1][2] = CommentFallback

\* C4 (as claimed): whenever the analyzer call for a record fails, the
\* judgment at the record's position is neutral / 0.5 with themes exactly
\* <<"error">>, no issues and no feature requests.
C4_FailureYieldsErrorTheme ==
    BatchReturned =>
        \A i \in 1..NumRecords : ChainFailedFor(i) => output[1][i] = BatchFallback

\* C5: analyze_batch has returned, and aggregate_results has been entered,
\* only when every task of the batch is done and has a result; a failed
\* call does not make the batch return while others are unresolved.
C5_JoinAll ==
    BatchReturned =>
        /\ Len(output[1]) = NumRecords
        /\ \A i \in 1..NumRecords : task[i] = "done" /\ task_result[i] # Pending

\* aggregation was entered for a sequential batch whose first call failed
\* before the later ones, which succeeded, were even started
C5_Witness ==
    /\ pc = "aggregated"
    /\ max_concurrency = Some(1)
    /\ NumRecords >= 3
    /\ ChainFailedFor(1)
    /\ \A i \in 2..NumRecords : reply[i] # None /\ reply[i][1].ok

\* C6: under fair scheduling (every chain call returns or fails) a called
\* batch eventually returns, and by then every record has been admitted
\* through the gate and its analyzer call started: none is rejected or
\* dropped, and the gate does not deadlock.
C6_EventuallyReturns ==
    (pc = "called") ~> (BatchReturned /\ \A i \in 1..NumRecords : call_count[i] >= 1)

\* a batch larger than the default limit has returned with every record analysed
C6_Witness ==
    /\ BatchReturned
    /\ max_concurrency = None
    /\ NumRecords > EffectiveLimit(max_concurrency)
    /\ \A i \in 1..NumRecords : call_count[i] >= 1
    /\ \E i \in 1..NumRecords : ChainFailedFor(i)

\* C7: analyze_batch starts exactly one analyzer call per record: never more
\* than one, and exactly one by the time it returns; an empty input returns
\* an empty list with no gate created and no call started.
C7_OneCallPerRecord ==
    /\ \A i \in DOMAIN call_count : call_count[i] <= 1
    /\ DOMAIN call_count \subseteq 1..NumRecords
    /\ BatchReturned => \A i \in 1..NumRecords : call_count[i] = 1
    /\ (BatchReturned /\ comments_data = <<>>) =>
            output = Some(<<>>) /\ gates = 0 /\ call_count = <<>>
    /\ gates <= 1

\* a full batch with a failed call has returned
C7_Witness ==
    /\ BatchReturned
    /\ NumRecords = MaxRecords
    /\ \E i \in 1..NumRecords : ChainFailedFor(i)
    /\ \A i \in 1..NumRecords : call_count[i] = 1

Capped(j) ==
    /\ Len(j.themes) <= MaxThemes
    /\ Len(j.issues) <= MaxIssues
    /\ Len(j.feature_requests) <= MaxRequests

\* C8: after _validate_analysis themes, issues and feature_requests have at
\* most 3 entries each, and so has every judgment analyze_batch returns,
\* the fallback judgments included.
C8_ListsCapped ==
    /\ vpc = "validated" => Capped(validated[1])
    /\ output # None => \A i \in DOMAIN output[1] : Capped(output[1][i])
    /\ Capped(CommentFallback)
    /\ Capped(BatchFallback)

\* a raw judgment with more than 3 themes, issues or requests was normalised
C8_Witness ==
    /\ vpc = "validated"
    /\ Len(raw.themes) > MaxThemes
    /\ Len(validated[1].themes) = MaxThemes

SentimentAndScoreValid(j) ==
    /\ j.sentiment \in ValidSentiments
    /\ 0 <= j.sentiment_score
    /\ j.sentiment_score <= ScoreOne

\* C9: after _validate_analysis the sentiment is positive, neutral or
\* negative (a valid raw label is kept, any other becomes neutral) and the
\* score is in [0,1] (a raw score above 1 becomes 1, below 0 becomes 0, one
\* in range is kept); every judgment analyze_batch returns satisfies both.
C9_SentimentAndScore ==
    /\ vpc = "validated" =>
          /\ SentimentAndScoreValid(validated[1])
          /\ validated[1].sentiment =
                (IF raw.sentiment \in ValidSentiments THEN raw.sentiment ELSE "neutral")
          /\ raw.sentiment_score > ScoreOne => validated[1].sentiment_score = ScoreOne
          /\ raw.sentiment_score < 0 => validated[1].sentiment_score = 0
          /\ (0 <= raw.sentiment_score /\ raw.sentiment_score <= ScoreOne) =>
                validated[1].sentiment_score = raw.sentiment_score
    /\ output # None => \A i \in DOMAIN output[1] : SentimentAndScoreValid(output[1][i])

\* an unknown label with a score below 0 was normalised
C9_Witness ==
    /\ vpc = "validated"
    /\ raw.sentiment = "mixed"
    /\ raw.sentiment_score < 0
    /\ validated[1].sentiment = "neutral"
    /\ validated[1].sentiment_score = 0

\* C10 (as claimed): after normalisation the priority is null whenever the
\* issues list is empty, and whenever it is non-empty the priority is one of
\* alta/media/baja, being media when the raw priority was null or not one of
\* those three.
C10_PriorityFollowsIssues ==
    vpc = "validated" =>
        LET v == validated[1]
            p == raw.issue_priority
        IN  /\ v.issues = <<>> => v.issue_priority = None
            /\ v.issues # <<>> =>
                  /\ v.issue_priority # None
                  /\ v.issue_priority[1] \in ValidPriorities
                  /\ (p = None \/ p[1] \notin ValidPriorities) =>
                        v.issue_priority = Some("media")

\* C10 (amended): a raw priority that is null or one of alta/media/baja is
\* left as it is, whatever the issues list; any other non-empty raw priority
\* becomes media when the cleaned issues list is non-empty and null when it
\* is empty.
C10_PriorityAmended ==
    vpc = "validated" =>
        LET v == validated[1]
            p == raw.issue_priority
        IN  /\ (p = None \/ (p # None /\ p[1] \in ValidPriorities)) => v.issue_priority = p
            /\ (p # None /\ p[1] # "" /\ p[1] \notin ValidPriorities) =>
                  /\ v.issues # <<>> => v.issue_priority = Some("media")
                  /\ v.issues = <<>> => v.issue_priority = None

\* issues survived the cleaning and the null raw priority stayed null
C10_Witness ==
    /\ vpc = "validated"
    /\ raw.issue_priority = None
    /\ validated[1].issues # <<>>
    /\ validated[1].issue_priority = None

InPriorityDomain(p) == p = None \/ (p # None /\ p[1] \in ValidPriorities)

\* C11 (as claimed): whatever raw priority the model returns (null, the
\* empty string, a valid label, any other string), after _validate_analysis
\* the priority is alta, media, baja or null.
C11_PriorityInDomain ==
    vpc \in {"validated", "revalidated"} => InPriorityDomain(validated[1].issue_priority)

\* C12: _validate_analysis is idempotent: applied to its own result it
\* returns a judgment equal to that result in every field.
C12_Idempotent ==
    vpc = "revalidated" =>
        /\ revalidated[1].sentiment = validated[1].sentiment
        /\ revalidated[1].sentiment_score = validated[1].sentiment_score
        /\ revalidated[1].themes = validated[1].themes
        /\ revalidated[1].issues = validated[1].issues
        /\ revalidated[1].issue_priority = validated[1].issue_priority
        /\ revalidated[1].feature_requests = validated[1].feature_requests

\* a judgment whose normalisation changed its requests (padding stripped,
\* blanks dropped, list cut) was normalised a second time
C12_Witness ==
    /\ vpc = "revalidated"
    /\ Len(raw.feature_requests) > MaxRequests
    /\ \E k \in 1..Len(raw.feature_requests) : raw.feature_requests[k] = <<" ", " ", "s">>
    /\ validated[1].feature_requests # raw.feature_requests
    /\ revalidated = validated

IsDistinct(xs) == \A a, b \in 1..Len(xs) : xs[a] = xs[b] => a = b

\* C13 (as claimed): the normalised themes contain no label twice: they are
\* the distinct raw labels in first-occurrence order, cut to 3.
C13_ThemesDistinct ==
    (vpc \in {"validated", "revalidated"} /\ raw.themes # <<>>) =>
        /\ IsDistinct(validated[1].themes)
        /\ validated[1].themes = Take(Distinct(raw.themes), MaxThemes)

\* C13 (amended): the normalised themes are the first 3 raw labels in raw
\* order, repeated labels kept; an empty raw list becomes <<"general">>.
C13_ThemesPrefix ==
    vpc \in {"validated", "revalidated"} =>
        IF raw.themes = <<>>
        THEN validated[1].themes = <<"general">>
        ELSE /\ Len(validated[1].themes) = Min(MaxThemes, Len(raw.themes))
             /\ \A k \in 1..Len(validated[1].themes) : validated[1].themes[k] = raw.themes[k]

\* a raw list that repeats a label within its first three entries was normalised
C13_Witness ==
    /\ vpc = "validated"
    /\ Len(raw.themes) > MaxThemes
    /\ raw.themes[1] = raw.themes[2]
    /\ validated[1].themes[1] = validated[1].themes[2]

----------------------------------------------------------------------------
(* Ingestion properties *)

Parsed == parsed # None
ParsedOk == Parsed /\ parsed[1].status = "ok"
Records == parsed[1].records
ColumnSet(f) == {f.columns[k] : k \in 1..Len(f.columns)}
\* the column of the file that holds the comments: the first name of the
\* comment alias list that the header has
CommentSource(f) == CommentVariations[FirstVariation(CommentVariations, f.columns)]
InsideInterval(n) == MinCommentLen < n /\ n < MaxCommentLen
\* the rows of the file whose comment is present and, once trimmed, has a
\* length strictly between 5 and 1000
RowsInside(f) ==
    SelectSeq(f.rows, LAMBDA r : /\ ~IsNaN(r[CommentSource(f)])
                                 /\ InsideInterval(r[CommentSource(f)][4]))

\* C14: the comments of the emitted records are exactly the trimmed comments
\* of the rows whose comment is present and has a trimmed length L with
\* 5 < L < 1000, in row order; every other row is dropped, and every comment
\* handed to the analyzer has such a length.
C14_LengthFilter ==
    /\ ParsedOk =>
          /\ Len(Records) = Len(RowsInside(upload[1]))
          /\ \A k \in 1..Len(Records) :
                /\ Records[k].comment = StripText(RowsInside(upload[1])[k][CommentSource(upload[1])])
                /\ InsideInterval(TextLen(Records[k].comment))
    /\ upload # None =>
          \A i \in 1..Len(comments_data) : InsideInterval(TextLen(comments_data[i].comment))

\* a 999-character comment wrapped in blanks is emitted and analysed while
\* its neighbour of 1000 characters is dropped
C14_Witness ==
    /\ ParsedOk
    /\ Len(upload[1].rows) = 2
    /\ upload[1].rows[1]["comment"] = Text("comment", 0, 1000, 0)
    /\ upload[1].rows[2]["comment"] = Text("comment", 1, 999, 1)
    /\ Len(Records) = 1
    /\ Records[1].comment = Text("comment", 0, 999, 0)
    /\ pc = "gather" /\ Len(comments_data) = 1

HasCommentColumn(f) == \E k \in 1..Len(CommentVariations) : InSeq(CommentVariations[k], f.columns)

\* C15: a file whose extension is not .csv, .xlsx or .xls is refused as an
\* unsupported format; a supported file none of whose columns is a comment
\* alias is refused with a missing-column error that names comment and
\* lists the columns of the file; in both cases no records are returned.
C15_RejectsBadFiles ==
    Parsed =>
        /\ LowerSuffix(upload[1].suffix) \notin SupportedSuffixes =>
              /\ parsed[1].status = "unsupported_format"
              /\ Records = <<>>
        /\ (LowerSuffix(upload[1].suffix) \in SupportedSuffixes /\ ~HasCommentColumn(upload[1])) =>
              /\ parsed[1].status = "missing_columns"
              /\ parsed[1].missing = <<"comment">>
              /\ parsed[1].available = upload[1].columns
              /\ Records = <<>>

\* (the part of C15 that the parser keeps: the refusals themselves; a .csv
\* file without a header line is refused by the reader, before the columns
\* are looked at)
C15_Refused ==
    Parsed =>
        /\ LowerSuffix(upload[1].suffix) \notin SupportedSuffixes =>
              parsed[1].status = "unsupported_format" /\ Records = <<>>
        /\ (LowerSuffix(upload[1].suffix) \in SupportedSuffixes /\ ~HasCommentColumn(upload[1])) =>
              /\ IF NoColumnsToParse(upload[1])
                 THEN parsed[1].status = "empty_data"
                 ELSE parsed[1].status = "missing_columns" /\ parsed[1].missing = <<"comment">>
              /\ Records = <<>>

\* the parser refused the file, or no row of it passed the length filter
IngestionRejects == Parsed /\ (parsed[1].status # "ok" \/ Records = <<>>)
NoAnalysisWork ==
    /\ comments_data = <<>> /\ semaphore = None /\ gates = 0
    /\ task = <<>> /\ call_count = <<>> /\ reply = <<>> /\ output = None
StorageUntouched == job_dirs = 0 /\ artifacts = <<>> /\ job_id = None

\* C16: when ingestion rejects the file (unsupported extension, no comment
\* column, or no valid comment), analyze_file raises without having started
\* an analyzer call, without aggregating and without creating a job
\* directory or artifact; once it has raised nothing more happens (no retry).
C16_RejectedBeforeWork ==
    /\ [](IngestionRejects =>
            /\ pc \in {"parsed", "rejected"}
            /\ NoAnalysisWork
            /\ report = None
            /\ StorageUntouched)
    /\ []((upload # None /\ pc = "rejected") =>
            /\ IngestionRejects
            /\ raised = Some(IF parsed[1].status # "ok" THEN parsed[1].status
                              ELSE "no_valid_comments"))
    /\ [][pc = "rejected" => UNCHANGED vars]_vars

\* a file with two rows, neither of them a valid comment, has been rejected
C16_Witness ==
    /\ pc = "rejected"
    /\ raised = Some("no_valid_comments")
    /\ Len(upload[1].rows) = 2
    /\ parsed[1].status = "ok"
    /\ NoAnalysisWork /\ StorageUntouched

\* the column of the file that a logical field (entry m of the alias table)
\* is to be read from: the first name of its alias list that the header has
FieldSource(f, m) ==
    IF FirstVariation(ColumnMapping[m][2], f.columns) = 0 THEN None
    ELSE Some(ColumnMapping[m][2][FirstVariation(ColumnMapping[m][2], f.columns)])

ReadsFrom(rec, row, f, m) ==
    FieldSource(f, m) # None =>
        rec[ColumnMapping[m][1]] =
            CASE m = 1 -> StripText(row[FieldSource(f, m)[1]])
              [] m = 2 -> StrOf(row[FieldSource(f, m)[1]])
              [] OTHER -> row[FieldSource(f, m)[1]]

\* C17: whatever the header, every emitted record takes its comment, author,
\* channel and date from the first alias of the field's alias list that is
\* a column of the file.
C17_FirstAliasWins ==
    ParsedOk =>
        /\ Len(Records) = Len(RowsInside(upload[1]))
        /\ \A k \in 1..Len(Records) : \A m \in 1..Len(ColumnMapping) :
              ReadsFrom(Records[k], RowsInside(upload[1])[k], upload[1], m)

\* (the part of C17 that the parser keeps: aliases are resolved, for every
\* field, when no column is named comment)
C17_AliasesWithoutComment ==
    (ParsedOk /\ ~InSeq("comment", upload[1].columns)) =>
        \A k \in 1..Len(Records) : \A m \in 1..Len(ColumnMapping) :
            ReadsFrom(Records[k], RowsInside(upload[1])[k], upload[1], m)

\* the columns of the file that belong to no alias list (sku, producto)
PassthroughColumns(f) ==
    {c \in ColumnSet(f) : \A m \in 1..Len(ColumnMapping) : ~InSeq(c, ColumnMapping[m][2])}

\* C18: every emitted record carries, under the column's name, the value its
\* source row has in each column that is mapped to no logical field; in
\* particular record["sku"] is the sku cell of the row.
C18_PassthroughKept ==
    ParsedOk =>
        \A k \in 1..Min(Len(Records), Len(RowsInside(upload[1]))) :
            \A c \in PassthroughColumns(upload[1]) :
                /\ c \in DOMAIN Records[k]
                /\ Records[k][c] = RowsInside(upload[1])[k][c]

\* (what the parser does instead: a record has the four logical fields only)
C18_FourKeys ==
    ParsedOk =>
        \A k \in 1..Len(Records) : DOMAIN Records[k] = {"comment", "username", "channel", "date"}

\* the row has no value for the field: the file has no column for it, or
\* the row's cell in that column is empty
ColumnAbsent(f, m) == FieldSource(f, m) = None
CellEmpty(row, f, m) == FieldSource(f, m) # None /\ IsNaN(row[FieldSource(f, m)[1]])

\* C19: an emitted record whose source row has no author (no author column,
\* or an empty author cell) has the author "anonymous"; its channel and
\* date are null when the file has no such column.
C19_Defaults ==
    ParsedOk =>
        \A k \in 1..Min(Len(Records), Len(RowsInside(upload[1]))) :
            /\ (ColumnAbsent(upload[1], 2) \/ CellEmpty(RowsInside(upload[1])[k], upload[1], 2))
                  => Records[k].username = Anonymous
            /\ ColumnAbsent(upload[1], 3) => Records[k].channel = None
            /\ ColumnAbsent(upload[1], 4) => Records[k].date = None

\* (the part of C19 that the parser keeps: the defaults for absent columns)
C19_AbsentColumns ==
    ParsedOk =>
        \A k \in 1..Len(Records) :
            /\ ColumnAbsent(upload[1], 2) => Records[k].username = Anonymous
            /\ ColumnAbsent(upload[1], 3) => Records[k].channel = None
            /\ ColumnAbsent(upload[1], 4) => Records[k].date = None

----------------------------------------------------------------------------
(* Aggregation properties *)

Aggregated == pc \in {"aggregated"} \cup AfterSave
\* the breakdowns a report has
Breakdowns(r) == {r[b] : b \in {"by_sku", "by_channel"} \cap DOMAIN r}

\* C20: aggregate_results([], []) raises nothing and returns the report with
\* overall sentiment neutral and score 0.5, with no theme, issue, feature
\* request or highlight, and with empty breakdowns.
C20_ZeroReport ==
    (output = Some(<<>>) /\ comments_data = <<>> /\ pc \notin {"returned"}) =>
        /\ pc = "aggregated" /\ raised = None
        /\ report # None
        /\ report[1].overall_sentiment.label = "neutral"
        /\ report[1].overall_sentiment.score = <<ScoreHalf, 1>>
        /\ report[1].themes = <<>>
        /\ report[1].top_issues = <<>>
        /\ report[1].feature_requests = <<>>
        /\ report[1].highlights = <<>>
        /\ report[1].by_channel = <<>>
        /\ \A b \in Breakdowns(report[1]) : b = <<>>

\* analyze_batch returned [] for [] and the aggregation has run
C20_Witness ==
    /\ pc = "aggregated"
    /\ comments_data = <<>> /\ output = Some(<<>>)
    /\ report # None /\ report[1].themes = <<>>

\* aggregate_results has returned a report: for which judgments and records
HasReport == report # None /\ pc \in {"agg_returned", "aggregated"} \cup AfterSave
Judgments == IF agg_args # None THEN agg_args[1].analyses ELSE output[1]
RecordsGiven == IF agg_args # None THEN agg_args[1].records ELSE comments_data
LabelAt(i) == Judgments[i].sentiment
Occurrences(l) == Cardinality({i \in 1..Len(Judgments) : LabelAt(i) = l})
FirstAt(l) == CHOOSE i \in 1..Len(Judgments) :
                 LabelAt(i) = l /\ \A j \in 1..(i - 1) : LabelAt(j) # l

\* C21: for a non-empty list of judgments the overall label is a label of
\* the list, no label occurs more often, and every label that occurs as
\* often occurs first at a later position.
C21_ModeFirstSeen ==
    (HasReport /\ Judgments # <<>>) =>
        /\ \E i \in 1..Len(Judgments) : LabelAt(i) = report[1].overall_sentiment.label
        /\ \A i \in 1..Len(Judgments) :
              /\ Occurrences(LabelAt(i)) <= Occurrences(report[1].overall_sentiment.label)
              /\ Occurrences(LabelAt(i)) = Occurrences(report[1].overall_sentiment.label)
                    => FirstAt(report[1].overall_sentiment.label) <= i

\* three judgments with three labels: the first label, neutral, is reported
C21_Witness ==
    /\ pc = "agg_returned"
    /\ Len(Judgments) = 3
    /\ LabelAt(1) = "neutral" /\ LabelAt(2) = "negative" /\ LabelAt(3) = "positive"
    /\ report[1].overall_sentiment.label = "neutral"

\* the five judgments of the scenario
FiveJudgments ==
    /\ Len(Judgments) = 5
    /\ [i \in 1..5 |-> LabelAt(i)] = <<"positive", "neutral", "negative", "neutral", "positive">>
    /\ [i \in 1..5 |-> Judgments[i].sentiment_score] = <<90, 60, 20, 70, 80>>
\* the overall score, a fraction of hundredths, is x hundredths
ScoreIs(x) == report[1].overall_sentiment.score[1] = x * report[1].overall_sentiment.score[2]

\* C22 (as claimed): the five judgments positive 0.9, neutral 0.6, negative
\* 0.2, neutral 0.7, positive 0.8 give the overall label neutral and the
\* overall score 0.64.
C22_FiveGiveNeutral ==
    (HasReport /\ agg_args # None /\ FiveJudgments) =>
        report[1].overall_sentiment.label = "neutral" /\ ScoreIs(64)

\* C22 (amended): those five judgments give the overall label positive
\* (positive and neutral both occur twice, positive occurs first) and the
\* overall score 0.64.
C22_FiveGivePositive ==
    (HasReport /\ agg_args # None /\ FiveJudgments) =>
        report[1].overall_sentiment.label = "positive" /\ ScoreIs(64)

\* the five judgments have been aggregated
C22_Witness ==
    /\ pc = "agg_returned"
    /\ FiveJudgments
    /\ report[1].overall_sentiment.score = <<320, 5>>

ScoresGiven == [i \in 1..Len(Judgments) |-> Judgments[i].sentiment_score]
NonZeroScores == SelectSeq(ScoresGiven, LAMBDA x : x # 0)
PositiveScores == SelectSeq(ScoresGiven, LAMBDA x : x > 0)
\* the overall score, a fraction, is the mean of the scores xs
ScoreIsMeanOf(xs) ==
    report[1].overall_sentiment.score[1] * Len(xs) = Sum(xs) * report[1].overall_sentiment.score[2]
ScoreInUnitInterval ==
    /\ report[1].overall_sentiment.score[2] > 0
    /\ 0 <= report[1].overall_sentiment.score[1]
    /\ report[1].overall_sentiment.score[1] <= ScoreOne * report[1].overall_sentiment.score[2]

\* C23: for a non-empty list of judgments the overall score is the sum of
\* the scores that are not exactly zero divided by the number of such
\* scores, and 0.5 when no score is positive; it is in [0,1] when every
\* score is.
C23_MeanOfNonZero ==
    (HasReport /\ Judgments # <<>>) =>
        /\ NonZeroScores # <<>> =>
              /\ ScoreIsMeanOf(NonZeroScores)
              /\ report[1].overall_sentiment.score[2] = Len(NonZeroScores)
        /\ PositiveScores = <<>> => ScoreIs(ScoreHalf)
        /\ (\A i \in 1..Len(ScoresGiven) : 0 <= ScoresGiven[i] /\ ScoresGiven[i] <= ScoreOne)
              => ScoreInUnitInterval

\* a zero and two positive scores: the zero is left out of the mean
C23_Witness ==
    /\ pc = "agg_returned"
    /\ ScoresGiven = <<0, 50, 90>>
    /\ report[1].overall_sentiment.score = <<140, 2>>

\* the occurrences of labels in field f of the judgments: positions <<i, k>>
\* (judgment i, entry k), scanned in that order
Positions(f) ==
    UNION {{<<i, k>> : k \in 1..Len(Judgments[i][f])} : i \in 1..Len(Judgments)}
LabelOn(f, p) == Judgments[p[1]][f][p[2]]
LabelSet(f) == {LabelOn(f, p) : p \in Positions(f)}
Earlier(p, q) == p[1] < q[1] \/ (p[1] = q[1] /\ p[2] < q[2])
OccurrencesIn(f, l) == Cardinality({p \in Positions(f) : LabelOn(f, p) = l})
FirstIn(f, l) ==
    CHOOSE p \in Positions(f) :
        /\ LabelOn(f, p) = l
        /\ \A q \in Positions(f) : LabelOn(f, q) = l => ~Earlier(q, p)
\* label a ranks before label b
RanksBefore(f, a, b) ==
    \/ OccurrencesIn(f, a) > OccurrencesIn(f, b)
    \/ OccurrencesIn(f, a) = OccurrencesIn(f, b) /\ Earlier(FirstIn(f, a), FirstIn(f, b))
\* names is the ranking of the labels of field f, cut at 10
IsRanking(f, names) ==
    /\ Len(names) <= MaxRanked
    /\ Len(names) = Min(MaxRanked, Cardinality(LabelSet(f)))
    /\ \A a \in 1..Len(names) : names[a] \in LabelSet(f)
    /\ \A a, b \in 1..Len(names) : a < b => RanksBefore(f, names[a], names[b])
    /\ \A l \in LabelSet(f) :
          (\A a \in 1..Len(names) : names[a] # l) =>
              \A a \in 1..Len(names) : RanksBefore(f, names[a], l)

\* C24: themes, top_issues and feature_requests have at most 10 entries,
\* which are the labels of highest occurrence count in non-increasing count
\* order, labels of equal count in the order in which the scan of the
\* judgments meets them first; the count of an issue or feature-request
\* entry is the number of occurrences of its label.
C24_RankedLists ==
    HasReport =>
        /\ IsRanking("themes", [k \in 1..Len(report[1].themes) |-> report[1].themes[k].name])
        /\ IsRanking("issues", [k \in 1..Len(report[1].top_issues) |-> report[1].top_issues[k].issue])
        /\ IsRanking("feature_requests",
                     [k \in 1..Len(report[1].feature_requests) |->
                        report[1].feature_requests[k].request])
        /\ \A k \in 1..Len(report[1].top_issues) :
              report[1].top_issues[k].count = OccurrencesIn("issues", report[1].top_issues[k].issue)
        /\ \A k \in 1..Len(report[1].feature_requests) :
              report[1].feature_requests[k].count =
                  OccurrencesIn("feature_requests", report[1].feature_requests[k].request)

\* twelve labels, the last two cited twice: they lead the lists, eight of
\* the others follow in first-seen order and two are cut
C24_Witness ==
    /\ pc = "agg_returned"
    /\ Cardinality(LabelSet("themes")) = 12
    /\ Len(report[1].themes) = MaxRanked
    /\ report[1].themes[1].name = "k" /\ report[1].themes[2].name = "l"
    /\ report[1].themes[3].name = "a" /\ report[1].themes[MaxRanked].name = "h"
    /\ Len(report[1].top_issues) = MaxRanked
    /\ report[1].top_issues[1] = [issue |-> <<"k">>, count |-> 2, priority |-> "baja"]
    /\ Len(report[1].feature_requests) = MaxRanked

\* the judgments that cite the issue and satisfy has(priority)
Citing(issue, has(_)) ==
    {i \in 1..Len(Judgments) : InSeq(issue, Judgments[i].issues) /\ has(Judgments[i].issue_priority)}
NonNull(p) == p # None
NonEmpty(p) == p # None /\ p[1] # ""
\* the priority of the last of those judgments, media when there is none
LastPriority(issue, has(_)) ==
    IF Citing(issue, has) = {} THEN "media"
    ELSE Judgments[CHOOSE i \in Citing(issue, has) :
                      \A j \in Citing(issue, has) : j <= i].issue_priority[1]

\* C25: the priority of every entry of top_issues is the priority of the
\* last judgment that cites the issue and has a non-null priority, and
\* media when no judgment citing the issue has a priority.
C25_LastNonNullPriority ==
    HasReport =>
        \A k \in 1..Len(report[1].top_issues) :
            report[1].top_issues[k].priority = LastPriority(report[1].top_issues[k].issue, NonNull)

\* (what the aggregation does: an empty priority counts as none)
C25_LastNonEmptyPriority ==
    HasReport =>
        \A k \in 1..Len(report[1].top_issues) :
            report[1].top_issues[k].priority = LastPriority(report[1].top_issues[k].issue, NonEmpty)

\* position i has a record and a judgment that make a highlight
Quotable(i) ==
    /\ i <= Len(RecordsGiven)
    /\ Judgments[i].sentiment = "positive"
    /\ Judgments[i].sentiment_score > 80
    /\ TextLen(CommentOf(RecordsGiven[i])) > 20
    /\ TextLen(CommentOf(RecordsGiven[i])) < 150
QuotablePositions == {i \in 1..Len(Judgments) : Quotable(i)}
\* the k-th quotable position in original order
NthQuotable(k) ==
    CHOOSE i \in QuotablePositions : Cardinality({j \in QuotablePositions : j < i}) = k - 1

\* C26: the highlights are the first 5 (or all, if fewer) positions, in
\* original order, whose judgment is positive with score above 0.8 and whose
\* record's comment is longer than 20 and shorter than 150 characters; each
\* highlight quotes that record's comment.
C26_Highlights ==
    HasReport =>
        /\ Len(report[1].highlights) =
               (IF Cardinality(QuotablePositions) < 5 THEN Cardinality(QuotablePositions) ELSE 5)
        /\ \A k \in 1..Len(report[1].highlights) :
               report[1].highlights[k].quote = CommentOf(RecordsGiven[NthQuotable(k)])

\* a report with five highlights out of more quotable positions, a position
\* that is not quotable coming before the last position quoted
C26_Witness ==
    /\ HasReport
    /\ Len(report[1].highlights) = 5
    /\ Cardinality(QuotablePositions) > 5
    /\ \E i \in 1..Len(Judgments) : ~Quotable(i) /\ i < NthQuotable(5)

\* aggregate_results has run on a non-empty list of judgments
AggregationRan ==
    \/ agg_args # None /\ pc \in {"agg_returned", "agg_raised"} /\ agg_args[1].analyses # <<>>
    \/ output # None /\ pc \in ({"aggregated", "failed"} \cup AfterSave) /\ output[1] # <<>>
GroupingFields == {"channel", "sku"}
\* the breakdown aggregate_results computes for a grouping field
Buckets(f) == AggregateByField(Judgments, RecordsGiven, f)
\* the bucket key of position i: the record's value, unknown when the key
\* is absent or the value is null
BucketKeyOrUnknown(i, f) ==
    IF Get(RecordsGiven[i], f, None) = None THEN Unknown ELSE RecordsGiven[i][f]
\* the bucket key of position i: the record's value, unknown when the key
\* is absent
BucketKeyOfGet(i, f) == Get(RecordsGiven[i], f, Unknown)
HistogramTotal(pairs) == Sum([k \in 1..Len(pairs) |-> pairs[k][2]])
Partitioned(f, key(_, _)) ==
    LET b == Buckets(f)
    IN  /\ \A i \in 1..Len(Judgments) :
               Cardinality({k \in 1..Len(b) : b[k][1] = key(i, f)}) = 1
        /\ \A k \in 1..Len(b) :
               /\ b[k][2].total_comments =
                      Cardinality({i \in 1..Len(Judgments) : key(i, f) = b[k][1]})
               /\ b[k][2].total_comments > 0
               /\ HistogramTotal(b[k][2].sentiment_distribution) = b[k][2].total_comments
        /\ Sum([k \in 1..Len(b) |-> b[k][2].total_comments]) = Len(Judgments)

\* C27: for each grouping field every judgment is counted in exactly one
\* bucket, keyed by its record's value for the field or by "unknown" when
\* the key is absent or the value is null; the totals sum to the number of
\* judgments, each histogram sums to its bucket's total, no total is 0.
C27_BucketsPartition ==
    AggregationRan => \A f \in GroupingFields : Partitioned(f, BucketKeyOrUnknown)

\* (the buckets partition the judgments by dict.get(field, "unknown"))
C27_BucketsByGet ==
    AggregationRan => \A f \in GroupingFields : Partitioned(f, BucketKeyOfGet)

\* the distinct sku values of the records
SkuValues == {RecordsGiven[i].sku : i \in {j \in 1..Len(RecordsGiven) : "sku" \in DOMAIN RecordsGiven[j]}}

\* C28: the report returned by aggregate_results has a by_channel and a
\* by_sku breakdown; for non-empty input whose records carry sku values
\* by_sku has one bucket per distinct sku.
C28_BothBreakdowns ==
    HasReport =>
        /\ "by_channel" \in DOMAIN report[1]
        /\ "by_sku" \in DOMAIN report[1]
        /\ (Judgments # <<>> /\ SkuValues # {}) =>
               {report[1].by_sku[k][1] : k \in 1..Len(report[1].by_sku)} \cap SkuValues = SkuValues

\* (the per-channel breakdown is on every report)
C28_ChannelBreakdown ==
    HasReport => "by_channel" \in DOMAIN report[1]

\* the second invocation's calls in flight, and its limit
SecondInFlight == Cardinality({i \in DOMAIN second[1].task : second[1].task[i] = "running"})
SecondLimit == EffectiveLimit(second[1].max_concurrency)
FirstLimit == EffectiveLimit(max_concurrency)

\* C29: each analyze_batch invocation has its own gate: with two
\* invocations interleaved, each one's calls in flight stay within its own
\* limit and the free slots of its gate are its limit minus its own calls
\* in flight and its own queued tasks that were handed a slot, whatever
\* the other invocation holds, so none of its tasks waits because of the
\* other's slots.
C29_GatePerInvocation ==
    second # None =>
        /\ semaphore # None =>
               /\ InFlight <= FirstLimit
               /\ semaphore[1] = FirstLimit - InFlight - woken
        /\ second[1].semaphore # None =>
               /\ SecondInFlight <= SecondLimit
               /\ second[1].semaphore[1] = SecondLimit - SecondInFlight - second[1].woken

\* both invocations are at their limit with a task still waiting, and the
\* calls in flight together number the sum of the two limits
C29_Witness ==
    /\ second # None
    /\ pc = "gather" /\ second[1].pc = "gather"
    /\ InFlight = FirstLimit /\ SecondInFlight = SecondLimit
    /\ \E i \in DOMAIN task : task[i] = "waiting"
    /\ \E i \in DOMAIN second[1].task : second[1].task[i] = "waiting"
    /\ InFlight + SecondInFlight = FirstLimit + SecondLimit
    /\ InFlight + SecondInFlight > FirstLimit
    /\ InFlight + SecondInFlight > SecondLimit

BothArtifacts == <<"analysis_results.json", "export_data.json">>
SaveError == Some(<<"error">>)
\* _save_analysis_results has returned
Saved == upload # None /\ pc = "saved"

\* C30: once aggregate_results has returned the report, analyze_file does
\* not fail: when creating the job directory or one of the two writes
\* fails, _save_analysis_results returns "error" and the report is still
\* returned; otherwise one job directory exists and
\* analysis_results.json and export_data.json, in that order, are its
\* artifacts.  Nothing is stored before the aggregation has finished and
\* the save was called.
C30_SaveNeverFailsRequest ==
    /\ (upload # None /\ report # None) => (pc \in ({"aggregated"} \cup AfterSave) /\ raised = None)
    /\ Saved =>
           /\ report # None
           /\ job_id # None
           /\ (job_dirs = 0 \/ artifacts # BothArtifacts) => job_id = SaveError
           /\ job_id # SaveError =>
                  /\ job_dirs = 1
                  /\ artifacts = BothArtifacts
                  /\ job_id = Some(<<"job", 1>>)
    /\ (job_dirs > 0 \/ artifacts # <<>>) => (upload # None /\ pc \in AfterSave)

\* the second write failed while writing: the id is "error", both files
\* are in the job directory (the second truncated), and the request has
\* the report
C30_Witness ==
    /\ Saved
    /\ job_id = SaveError
    /\ job_dirs = 1
    /\ artifacts = BothArtifacts
    /\ report # None
    /\ raised = None

====
